---- MODULE Spec2Model ----
(***************************************************************************)
(* Presence sessions of the Souls Guard bot (src/main.py), as the          *)
(* application that build_application builds runs them: the message        *)
(* handler (maybe_prompt_session) with its daily counters and the keyboard *)
(* it issues, check-in (cb_session_select), the per-user idle timer        *)
(* (schedule_idle_job / idle_timeout_job), the nightly call time           *)
(* aggregation and report (nightly_stats_job), and the private contact     *)
(* flow.                                                                   *)
(*                                                                         *)
(* Every handler is a coroutine on one event loop.  A coroutine runs       *)
(* without interruption between two awaits and may be suspended at each    *)
(* await of a storage or network call, so one action of the model is the   *)
(* code of a handler from one such await to the next.  The application is  *)
(* built without concurrent_updates: it handles one update at a time, and  *)
(* the callbacks of the job queue run beside the handler of the update.    *)
(* Time is counted in whole seconds of local time; second 0 is local       *)
(* midnight of day 0.                                                      *)
(*                                                                         *)
(* All handlers are registered in group 0, where the first handler whose   *)
(* filter accepts an update runs alone.  maybe_prompt_session takes every  *)
(* group message that is no command and handle_pm_any every private one,   *)
(* so handle_text_commands, registered after them, is left with the        *)
(* channel posts, on which it raises.  The handlers it would call          *)
(* (cmd_register_open, cmd_register_close, handle_promote_demote, cmd_ban, *)
(* cmd_unban) never run: no session is closed by a check-out, and the      *)
(* tables roles and bans keep the rows the start has seeded.               *)
(***************************************************************************)
EXTENDS Integers, Sequences, FiniteSets, TLC

VARIABLES
    now,            \* the wall clock, now_tz()
    sessions,       \* table sessions: a sequence of rows, id = index
    stats,          \* table stats_daily: (user_id, date) -> row
    roles,          \* table roles: user_id -> set of role names
    banned,         \* table bans: set of user ids
    users,          \* table users: set of user ids
    jobs,           \* the job queue's pending idle jobs: [user, due]
    nightlyDue,     \* next run of the repeating nightly_stats_job
    kb,             \* users a session-selection keyboard was issued for
    ops,            \* updates (messages, button presses) received so far
    notes,          \* per user, the "session closed" messages sent to the
                    \* guard chat
    report,         \* the last messages of the nightly report sent to the
                    \* guard chat: chat counters, call times, mentions
    contact_states, \* table contact_states: user_id -> [kind, waiting]
    contact_blocks, \* table contact_blocks: user_id -> [blocked, updated_at]
    relayed,        \* per user, the private messages copied to the guard
                    \* chat or the owner since the user last armed a contact
    blockKb,        \* users a reply/block keyboard was sent for
    slot            \* the coroutines in flight

dbVars == <<sessions, stats, roles, banned, users>>
pmVars == <<contact_states, contact_blocks, relayed, blockKb>>
vars == <<now, sessions, stats, roles, banned, users, jobs,
          nightlyDue, kb, ops, notes, report,
          contact_states, contact_blocks, relayed, blockKb, slot>>

----------------------------------------------------------------------------
(* Bounds of the model *)

MaxTicks == 2       \* instants of the clock after the first
MaxOps == 3         \* updates received
LastDay == 2        \* the last local day whose midnight the clock reaches
MaxPmOps == 5       \* updates received in the private contact flow
MaxMsgs == 2        \* messages received where the counters are followed

(* Program constants *)

IdleSecs == 300     \* run_once(idle_timeout_job, when=300)
DaySecs == 86400    \* one local day; run_repeating(interval=86400)
NULL == -1          \* a null timestamp (sessions.end_at, no row)
OWNER_ID == 1

Users == {1, 2}
Kinds == {"call", "chat"}
ManagerRoles == {"senior_global", "senior_call", "senior_chat",
                 "admin_call", "admin_chat"}
\* The coroutines that can be in flight together: the handler of the one
\* update the application is handling, the nightly job (the job queue runs
\* one instance of a repeating job at a time), and the idle jobs, each of
\* which is a job of its own.  A call of
\* update_call_time_aggregate_for_day made on its own is a coroutine of its
\* own.
UpdateSlot == "update"
NightlySlot == "nightly"
IdleSlots == {"idle_1", "idle_2"}
AggSlot == "agg"
Slots == {UpdateSlot, NightlySlot, AggSlot} \cup IdleSlots
StartTime == DaySecs - IdleSecs + 1  \* 23:55:01 of day 0
\* The instants the clock takes: the start, then one second before the idle
\* threshold has passed since the start (which is midnight), the threshold
\* itself, and the seconds after it.
Instant(k) == IF k = 0 THEN StartTime ELSE StartTime + IdleSecs - 2 + k
Instants == {Instant(k) : k \in 0..MaxTicks}
Actors == Users \ {OWNER_ID}      \* the users who hold no role

----------------------------------------------------------------------------
(* Helpers *)

Date(t) == t \div DaySecs

Ids == DOMAIN sessions

Free == [op |-> "none", pc |-> "done", user |-> 0, kind |-> "", inp |-> "",
         day |-> 0, total |-> 0, todo |-> {}, sid |-> 0, at |-> 0,
         err |-> "", author |-> 0, due |-> 0, managers |-> <<>>,
         chat_stats |-> <<>>, call_stats |-> <<>>]

\* No message of the report sent yet; no report sent yet; no row of
\* contact_states; no row of contact_blocks.
NoText == [day |-> NULL, lines |-> <<>>]
NoReport == [chat |-> NoText, call |-> NoText, mentions |-> NoText]
NoContact == [kind |-> "", waiting |-> FALSE]
NoBlock == [blocked |-> FALSE, updated_at |-> NULL]

IsFree(s) == slot[s].pc = "done"
\* The coroutine in slot s is left by an exception: a failed network call
\* ("network") or a failed storage call ("storage").  No handler catches it
\* and no error handler is registered, so the application logs it.
Raised(s, why) ==
    [Free EXCEPT !.op = slot[s].op, !.user = slot[s].user,
                 !.author = slot[s].author, !.pc = "raised", !.err = why]

\* The handler of an update starts when the handler of the update before
\* it has ended.
CanStart(s) == s = UpdateSlot /\ IsFree(s)

\* An idle job that is due starts whatever else is in flight (the two slots
\* are only names: the first free one is taken).
CanStartIdle(s) ==
    /\ s \in IdleSlots /\ IsFree(s)
    /\ s = "idle_1" \/ ~IsFree("idle_1")

\* No coroutine is in flight.
Quiet == \A s \in Slots : IsFree(s)

----------------------------------------------------------------------------
(* Permission helpers *)

is_owner(u) == u = OWNER_ID

is_manager(u) == is_owner(u) \/ (roles[u] \cap ManagerRoles # {})

\* upsert_user: the row is inserted, or its name columns are refreshed.
upsert_user(u) == users \cup {u}

----------------------------------------------------------------------------
(* DB layer *)

\* Variant: the query tests the ended rows instead of the active ones.
has_active_session_ended(u) ==
    \E i \in Ids : sessions[i].user = u /\ ~sessions[i].active

has_active_session(u) ==
    \E i \in Ids : sessions[i].user = u /\ sessions[i].active

add_session(u, kind, t) ==
    Append(sessions, [user |-> u, type |-> kind, start_at |-> t,
                      end_at |-> NULL, ended_by |-> "null", active |-> TRUE])

\* The CTE of end_session: the active rows of the user, latest start first,
\* limit 1.  Rows with equal start_at are in no defined order.
\* Variant: only Chat sessions are candidates for a close.
EndCandidates_chat(u) ==
    {i \in Ids : /\ sessions[i].user = u /\ sessions[i].active
                 /\ sessions[i].type = "chat"
                 /\ \A j \in Ids : ( /\ sessions[j].user = u
                                     /\ sessions[j].active
                                     /\ sessions[j].type = "chat" )
                        => sessions[j].start_at <= sessions[i].start_at}

EndCandidates(u) ==
    {i \in Ids : /\ sessions[i].user = u /\ sessions[i].active
                 /\ \A j \in Ids : (sessions[j].user = u /\ sessions[j].active)
                        => sessions[j].start_at <= sessions[i].start_at}

\* Variant: the update also moves start_at to the time of the close.
EndRow_moves_start(i, by, t) ==
    [sessions EXCEPT ![i].active = FALSE, ![i].end_at = t,
                     ![i].ended_by = by, ![i].start_at = t]

EndRow(i, by, t) ==
    [sessions EXCEPT ![i].active = FALSE, ![i].end_at = t, ![i].ended_by = by]

NoStat == [messages_count |-> 0, media_count |-> 0, voice_count |-> 0,
           mentions_made_count |-> 0, call_time_sec |-> 0]

StatKey(u, d) == <<u, d>>

Upsert(key, row) ==
    [k \in DOMAIN stats \cup {key} |-> IF k = key THEN row ELSE stats[k]]

\* Variant: on conflict the row takes the new message's values.
bump_stat_overwrite(u, is_media, is_voice, mentions, at) ==
    Upsert(StatKey(u, Date(at)),
           [NoStat EXCEPT
               !.messages_count = 1,
               !.media_count = IF is_media THEN 1 ELSE 0,
               !.voice_count = IF is_voice THEN 1 ELSE 0,
               !.mentions_made_count = mentions])

\* Variant: only media messages are counted as messages.
bump_stat_media(u, is_media, is_voice, mentions, at) ==
    LET key == StatKey(u, Date(at))
        old == IF key \in DOMAIN stats THEN stats[key] ELSE NoStat
    IN  Upsert(key, [old EXCEPT
            !.messages_count = @ + (IF is_media THEN 1 ELSE 0),
            !.media_count = @ + (IF is_media THEN 1 ELSE 0),
            !.voice_count = @ + (IF is_voice THEN 1 ELSE 0),
            !.mentions_made_count = @ + mentions])

bump_stat(u, is_media, is_voice, mentions, at) ==
    LET key == StatKey(u, Date(at))
        old == IF key \in DOMAIN stats THEN stats[key] ELSE NoStat
    IN  Upsert(key, [old EXCEPT
            !.messages_count = @ + 1,
            !.media_count = @ + (IF is_media THEN 1 ELSE 0),
            !.voice_count = @ + (IF is_voice THEN 1 ELSE 0),
            !.mentions_made_count = @ + mentions])

\* Variant: the select has no "type = 'call'" condition.
CallRows_all_kinds(u, d) ==
    {i \in Ids : sessions[i].user = u /\ Date(sessions[i].start_at) = d}

\* The select of update_call_time_aggregate_for_day and the loop over it.
CallRows(u, d) ==
    {i \in Ids : /\ sessions[i].user = u /\ sessions[i].type = "call"
                 /\ Date(sessions[i].start_at) = d}

RECURSIVE SumDelta(_, _)
SumDelta(rows, t) ==
    IF rows = {} THEN 0
    ELSE LET i == CHOOSE x \in rows : TRUE
             end == IF sessions[i].end_at = NULL THEN t ELSE sessions[i].end_at
             delta == end - sessions[i].start_at
         IN  (IF delta > 0 THEN delta ELSE 0) + SumDelta(rows \ {i}, t)

CallTotal(u, d, t) == SumDelta(CallRows(u, d), t)

\* Variant: on conflict the upsert adds the total to the stored call time.
SetCallTime_adds(u, d, total) ==
    LET key == StatKey(u, d)
        old == IF key \in DOMAIN stats THEN stats[key] ELSE NoStat
    IN  Upsert(key, [old EXCEPT !.call_time_sec = @ + total])

SetCallTime(u, d, total) ==
    LET key == StatKey(u, d)
        old == IF key \in DOMAIN stats THEN stats[key] ELSE NoStat
    IN  Upsert(key, [old EXCEPT !.call_time_sec = total])

----------------------------------------------------------------------------
(* schedule_idle_job: remove the user's pending idle jobs, add one due in   *)
(* 300 s.  The function has no await, so it is one step.                    *)

IdleDue(t) == t + IdleSecs

\* Variant: the pending jobs of the user are not removed.
schedule_idle_job_keeps_old(u) ==
    jobs \cup {[user |-> u, due |-> IdleDue(now)]}

schedule_idle_job(u) ==
    {j \in jobs : j.user # u} \cup {[user |-> u, due |-> IdleDue(now)]}

----------------------------------------------------------------------------
(* The clock *)

Tick ==
    /\ \E t \in Instants : t > now /\ now' = t
    /\ UNCHANGED <<pmVars, report, notes, dbVars, jobs, nightlyDue, kb, ops, slot>>

\* The clock reaches the time the earliest pending idle job is due at,
\* where the job queue fires it.  The nightly runs that were due earlier
\* have been started.  The clock is followed up to the last day.
JobTime ==
    /\ \E j \in jobs :
          /\ \A k \in jobs : j.due <= k.due
          /\ now < j.due /\ Date(j.due) < LastDay
          /\ now < nightlyDue /\ j.due <= nightlyDue
          /\ now' = j.due
    /\ UNCHANGED <<pmVars, report, notes, dbVars, jobs, nightlyDue, kb, ops, slot>>

\* The clock reaches the next local midnight from a day that has come to
\* rest: the job queue has started the nightly job of every midnight that
\* has passed and every idle job that was due before this one, and no
\* handler and no job is still running.
Midnight ==
    /\ Date(now) < LastDay
    /\ now < nightlyDue
    /\ \A j \in jobs : (Date(now) + 1) * DaySecs <= j.due
    /\ Quiet
    /\ now' = (Date(now) + 1) * DaySecs
    /\ UNCHANGED <<pmVars, report, notes, dbVars, jobs, nightlyDue, kb, ops, slot>>

----------------------------------------------------------------------------
(* cb_session_select: the check-in button.  presser pressed a button of the *)
(* keyboard issued for author.                                              *)

\* Variant: the handler does not compare the presser with the author.
StartSessionSelect_unscoped(s, presser, author, kind) ==
    /\ CanStart(s)
    /\ ops < MaxOps /\ ops' = ops + 1
    /\ author \in kb
    /\ slot' = [slot EXCEPT ![s] =
          [Free EXCEPT !.op = "sess", !.user = presser, !.kind = kind,
             !.author = author, !.pc = "has_active"]]
    /\ UNCHANGED <<pmVars, report, notes, now, dbVars, jobs, nightlyDue, kb>>

\* The callback data of a button holds the kind and the author the keyboard
\* was built for (build_session_kb).
StartSessionSelect(s, presser, author, kind) ==
    /\ CanStart(s)
    /\ ops < MaxOps /\ ops' = ops + 1
    /\ author \in kb
    /\ slot' = [slot EXCEPT ![s] =
          [Free EXCEPT !.op = "sess", !.user = presser, !.kind = kind,
             !.author = author,
             !.pc = IF presser # author THEN "alert" ELSE "has_active"]]
    /\ UNCHANGED <<pmVars, report, notes, now, dbVars, jobs, nightlyDue, kb>>

\* Variant: the check looks for an open session of the chosen kind only.
SessionSelectCheck_same_kind(s) ==
    /\ slot[s].op = "sess" /\ slot[s].pc = "has_active"
    /\ slot' = [slot EXCEPT ![s] =
          IF \E i \in Ids : /\ sessions[i].user = slot[s].user
                            /\ sessions[i].active
                            /\ sessions[i].type = slot[s].kind
          THEN [@ EXCEPT !.pc = "answer_open"]
          ELSE [@ EXCEPT !.pc = "add", !.at = now]]
    /\ UNCHANGED <<pmVars, report, notes, now, dbVars, jobs, nightlyDue, kb, ops>>

\* has_active_session.  now_tz(), the argument of add_session, is evaluated
\* when the answer is in, before the handler waits for the insert.
SessionSelectCheck(s) ==
    /\ slot[s].op = "sess" /\ slot[s].pc = "has_active"
    /\ slot' = [slot EXCEPT ![s] =
          IF has_active_session(slot[s].user)
          THEN [@ EXCEPT !.pc = "answer_open"]
          ELSE [@ EXCEPT !.pc = "add", !.at = now]]
    /\ UNCHANGED <<pmVars, report, notes, now, dbVars, jobs, nightlyDue, kb, ops>>

\* Variant: the early return for an open session re-arms the idle job.
SessionSelectAnswer_rearm(s, delivered) ==
    /\ slot[s].op = "sess" /\ slot[s].pc \in {"alert", "answer_open"}
    /\ jobs' = IF slot[s].pc = "answer_open" /\ delivered
               THEN schedule_idle_job(slot[s].user) ELSE jobs
    /\ slot' = [slot EXCEPT ![s] =
          IF delivered THEN Free ELSE Raised(s, "network")]
    /\ UNCHANGED <<pmVars, report, notes, now, dbVars, nightlyDue, kb, ops>>

\* q.answer of an early return ("not for you", "you already have an open
\* session"): the handler ends after it, or is left by the exception of a
\* failed call.
SessionSelectAnswer(s, delivered) ==
    /\ slot[s].op = "sess" /\ slot[s].pc \in {"alert", "answer_open"}
    /\ slot' = [slot EXCEPT ![s] =
          IF delivered THEN Free ELSE Raised(s, "network")]
    /\ UNCHANGED <<pmVars, report, notes, now, dbVars, jobs, nightlyDue, kb, ops>>

SessionSelectAdd(s) ==
    /\ slot[s].op = "sess" /\ slot[s].pc = "add"
    /\ sessions' = add_session(slot[s].user, slot[s].kind, slot[s].at)
    /\ slot' = [slot EXCEPT ![s].pc = "notify"]
    /\ UNCHANGED <<pmVars, report, notes, now, stats, roles, banned, users, jobs,
                   nightlyDue, kb, ops>>

\* q.answer, edit_message_text (guarded by try/except) and the send_message
\* to the guard chat, then schedule_idle_job.  A failure of q.answer or of
\* send_message raises out of the handler.
SessionSelectNotify(s, delivered) ==
    /\ slot[s].op = "sess" /\ slot[s].pc = "notify"
    /\ jobs' = IF delivered THEN schedule_idle_job(slot[s].user) ELSE jobs
    /\ slot' = [slot EXCEPT ![s] =
          IF delivered THEN Free ELSE Raised(s, "network")]
    /\ UNCHANGED <<pmVars, report, notes, now, dbVars, nightlyDue, kb, ops>>

----------------------------------------------------------------------------
(* idle_timeout_job: run by the job queue once the job is due.              *)

\* context.job, with the time the job was scheduled for, is the callback's
\* argument.
IdleFire(s, j) ==
    /\ CanStartIdle(s)
    /\ j \in jobs /\ now >= j.due
    /\ jobs' = jobs \ {j}
    /\ slot' = [slot EXCEPT ![s] =
          [Free EXCEPT !.op = "idle", !.pc = "has_active", !.user = j.user,
                       !.due = j.due]]
    /\ UNCHANGED <<pmVars, report, notes, now, dbVars, nightlyDue, kb, ops>>

\* Variant: a job that finds no open session of its user fails.
IdleCheck_raises(s) ==
    /\ slot[s].op = "idle" /\ slot[s].pc = "has_active"
    /\ slot' = [slot EXCEPT ![s] =
          IF has_active_session(slot[s].user)
          THEN [@ EXCEPT !.pc = "end_session", !.at = now]
          ELSE [@ EXCEPT !.pc = "raised", !.err = "storage"]]
    /\ UNCHANGED <<pmVars, report, notes, now, dbVars, jobs, nightlyDue, kb, ops>>

\* has_active_session.  now_tz(), the argument of end_session, is evaluated
\* when the answer is in.
IdleCheck(s) ==
    /\ slot[s].op = "idle" /\ slot[s].pc = "has_active"
    /\ slot' = [slot EXCEPT ![s] =
          IF has_active_session(slot[s].user)
          THEN [@ EXCEPT !.pc = "end_session", !.at = now] ELSE Free]
    /\ UNCHANGED <<pmVars, report, notes, now, dbVars, jobs, nightlyDue, kb, ops>>

\* end_session, the statement's select: the user's most recently started
\* active row, as the statement's snapshot shows it.
IdleEnd(s) ==
    /\ slot[s].op = "idle" /\ slot[s].pc = "end_session"
    /\ IF EndCandidates(slot[s].user) = {}
       THEN slot' = [slot EXCEPT ![s] = Free]
       ELSE \E i \in EndCandidates(slot[s].user) :
            slot' = [slot EXCEPT ![s].pc = "update", ![s].sid = i]
    /\ UNCHANGED <<pmVars, report, notes, now, dbVars, jobs, nightlyDue, kb, ops>>

\* Variant: the job records its close as a close by the user.
IdleUpdate_by_user(s) ==
    /\ slot[s].op = "idle" /\ slot[s].pc = "update"
    /\ sessions' = EndRow(slot[s].sid, "user", slot[s].at)
    /\ slot' = [slot EXCEPT ![s].pc = "notify"]
    /\ UNCHANGED <<pmVars, report, notes, now, stats, roles, banned, users, jobs,
                   nightlyDue, kb, ops>>

\* end_session, the statement's update of the selected row.  Its condition
\* is "s.id = c.id" alone: a row that another statement has closed since
\* the select is written again.
IdleUpdate(s) ==
    /\ slot[s].op = "idle" /\ slot[s].pc = "update"
    /\ sessions' = EndRow(slot[s].sid, "auto", slot[s].at)
    /\ slot' = [slot EXCEPT ![s].pc = "notify"]
    /\ UNCHANGED <<pmVars, report, notes, now, stats, roles, banned, users, jobs,
                   nightlyDue, kb, ops>>

\* Variant: a notification that fails reopens the row.
IdleNotify_rollback(s, delivered) ==
    /\ slot[s].op = "idle" /\ slot[s].pc = "notify"
    /\ notes' = IF delivered THEN [notes EXCEPT ![slot[s].user] = @ + 1]
              ELSE notes
    /\ sessions' = IF delivered THEN sessions
                   ELSE [sessions EXCEPT ![slot[s].sid].active = TRUE,
                                         ![slot[s].sid].end_at = NULL,
                                         ![slot[s].sid].ended_by = "null"]
    /\ slot' = [slot EXCEPT ![s] =
          IF delivered THEN Free ELSE Raised(s, "network")]
    /\ UNCHANGED <<pmVars, report, now, stats, roles, banned, users, jobs,
                   nightlyDue, kb, ops>>

\* send_message to the guard chat
IdleNotify(s, delivered) ==
    /\ slot[s].op = "idle" /\ slot[s].pc = "notify"
    /\ notes' = IF delivered THEN [notes EXCEPT ![slot[s].user] = @ + 1]
              ELSE notes
    /\ slot' = [slot EXCEPT ![s] =
          IF delivered THEN Free ELSE Raised(s, "network")]
    /\ UNCHANGED <<pmVars, report, now, dbVars, jobs, nightlyDue, kb, ops>>

\* The exception reaches the application, which logs it: the coroutine is
\* over.
HandlerRaised(s) ==
    /\ slot[s].pc = "raised"
    /\ slot' = [slot EXCEPT ![s] = Free]
    /\ UNCHANGED <<pmVars, report, notes, now, dbVars, jobs, nightlyDue, kb, ops>>

----------------------------------------------------------------------------
(* maybe_prompt_session: every group message of the main chat.              *)

IsMedia(inp) == inp = "media"
IsVoice(inp) == inp = "voice"
Mentions(inp) == IF inp = "mention" THEN 1 ELSE 0

\* The message arrives: ensure_user, the handler's first statement, upserts
\* the sender's row of table users.  set_active_member writes the table
\* active_members, which no handler of the model reads.
StartMessage(s, u, inp) ==
    /\ CanStart(s)
    /\ ops < MaxOps /\ ops' = ops + 1
    /\ users' = upsert_user(u)
    /\ slot' = [slot EXCEPT ![s] =
          [Free EXCEPT !.op = "msg", !.pc = "is_banned", !.user = u,
                       !.inp = inp]]
    /\ UNCHANGED <<pmVars, report, notes, now, sessions, stats, roles, banned,
                   jobs, nightlyDue, kb>>

\* is_banned.  now_tz(), the "at" of bump_stat, is evaluated when the
\* answer is in, before the handler waits for the insert.
MessageIsBanned(s) ==
    /\ slot[s].op = "msg" /\ slot[s].pc = "is_banned"
    /\ slot' = [slot EXCEPT ![s] =
          IF slot[s].user \in banned THEN Free
          ELSE [@ EXCEPT !.pc = "bump_stat", !.at = now]]
    /\ UNCHANGED <<pmVars, report, notes, now, dbVars, jobs, nightlyDue, kb, ops>>

\* bump_stat, then is_manager: for the owner is_owner answers with no wait
\* and has_active_session is the next statement waited for; for another
\* user is_manager reads table roles (has_any_role).
MessageBumpStat(s) ==
    /\ slot[s].op = "msg" /\ slot[s].pc = "bump_stat"
    /\ stats' = bump_stat(slot[s].user, IsMedia(slot[s].inp),
                          IsVoice(slot[s].inp), Mentions(slot[s].inp),
                          slot[s].at)
    /\ slot' = [slot EXCEPT ![s].pc =
          IF is_owner(slot[s].user) THEN "has_active" ELSE "is_manager"]
    /\ UNCHANGED <<pmVars, report, notes, now, sessions, roles, banned, users, jobs,
                   nightlyDue, kb, ops>>

\* is_manager of a user who is not the owner: has_any_role
MessageIsManager(s) ==
    /\ slot[s].op = "msg" /\ slot[s].pc = "is_manager"
    /\ slot' = [slot EXCEPT ![s] =
          IF is_manager(slot[s].user) THEN [@ EXCEPT !.pc = "has_active"]
          ELSE Free]
    /\ UNCHANGED <<pmVars, report, notes, now, dbVars, jobs, nightlyDue, kb, ops>>

\* With an open session schedule_idle_job follows has_active_session with no
\* await in between; without one the prompt is sent first.
MessageCheck(s) ==
    /\ slot[s].op = "msg" /\ slot[s].pc = "has_active"
    /\ IF has_active_session(slot[s].user)
       THEN /\ jobs' = schedule_idle_job(slot[s].user)
            /\ slot' = [slot EXCEPT ![s] = Free]
       ELSE /\ jobs' = jobs
            /\ slot' = [slot EXCEPT ![s].pc = "prompt"]
    /\ UNCHANGED <<pmVars, report, notes, now, dbVars, nightlyDue, kb, ops>>

\* reply_text with the keyboard (a failure is caught), then
\* schedule_idle_job.
MessagePrompt(s, delivered) ==
    /\ slot[s].op = "msg" /\ slot[s].pc = "prompt"
    /\ kb' = IF delivered THEN kb \cup {slot[s].user} ELSE kb
    /\ jobs' = schedule_idle_job(slot[s].user)
    /\ slot' = [slot EXCEPT ![s] = Free]
    /\ UNCHANGED <<pmVars, report, notes, now, dbVars, nightlyDue, ops>>

----------------------------------------------------------------------------
(* nightly_stats_job: run by the job queue every 86400 s from the first     *)
(* local midnight.                                                          *)

Min(S) == CHOOSE x \in S : \A y \in S : x <= y

\* list_all_managers reads the roles in this order, one statement each.
RoleOrder == <<"owner", "senior_global", "senior_call", "senior_chat",
               "admin_call", "admin_chat">>

RoleIndex(r) == CHOOSE i \in DOMAIN RoleOrder : RoleOrder[i] = r

\* The elements of a set of user ids as a list, in ascending order.  (The
\* select of list_by_role has no order by; in the model a role other than
\* owner is held by one user at most.)
RECURSIVE SeqOf(_)
SeqOf(S) == IF S = {} THEN <<>> ELSE <<Min(S)>> \o SeqOf(S \ {Min(S)})

list_by_role(r) == SeqOf({u \in Users : r \in roles[u]})

Range(f) == {f[i] : i \in DOMAIN f}

\* managers.get(r, []) of the dict list_all_managers has returned
ManagersOf(m, r) == m[RoleIndex(r)]

\* run_repeating(nightly_stats_job, interval=86400, first=delay): the job
\* queue starts the run that is due and plans the next one a day later.  It
\* runs one instance of the job at a time (max_instances = 1): a run that is
\* due while the run before it is still in flight is skipped.
NightlyFire(s) ==
    /\ s = NightlySlot
    /\ now >= nightlyDue
    /\ nightlyDue' = nightlyDue + DaySecs
    /\ slot' = IF IsFree(s)
               THEN [slot EXCEPT ![s] =
                       [Free EXCEPT !.op = "nightly", !.pc = "list_by_role",
                                    !.day = Date(now) - 1]]
               ELSE slot
    /\ UNCHANGED <<pmVars, report, notes, now, dbVars, jobs, kb, ops>>

\* list_all_managers: the statement of the next role.  After the last one
\* all_ids is the set of the users read.
NightlyList(s) ==
    /\ slot[s].op = "nightly" /\ slot[s].pc = "list_by_role"
    /\ LET r == RoleOrder[Len(slot[s].managers) + 1]
           m == Append(slot[s].managers, list_by_role(r))
       IN  slot' = [slot EXCEPT ![s] =
              IF Len(m) < Len(RoleOrder)
              THEN [@ EXCEPT !.managers = m]
              ELSE [@ EXCEPT !.managers = m,
                             !.todo = UNION {Range(m[i]) : i \in DOMAIN m},
                             !.pc = "fetch"]]
    /\ UNCHANGED <<pmVars, report, notes, now, dbVars, jobs, nightlyDue, kb, ops>>

\* update_call_time_aggregate_for_day: the select and the loop over its rows
NightlyFetch(s) ==
    /\ slot[s].op = "nightly" /\ slot[s].pc = "fetch"
    /\ slot' = [slot EXCEPT
          ![s].user = Min(slot[s].todo),
          ![s].total = CallTotal(Min(slot[s].todo), slot[s].day, now),
          ![s].pc = "write"]
    /\ UNCHANGED <<pmVars, report, notes, now, dbVars, jobs, nightlyDue, kb, ops>>

\* update_call_time_aggregate_for_day: the upsert
NightlyWrite(s) ==
    /\ slot[s].op = "nightly" /\ slot[s].pc = "write"
    /\ stats' = SetCallTime(slot[s].user, slot[s].day, slot[s].total)
    /\ slot' = [slot EXCEPT
          ![s].todo = @ \ {slot[s].user},
          ![s].user = 0, ![s].total = 0,
          ![s].pc = IF slot[s].todo = {slot[s].user} THEN "chat_stats"
                    ELSE "fetch"]
    /\ UNCHANGED <<pmVars, report, notes, now, sessions, roles, banned, users, jobs,
                   nightlyDue, kb, ops>>

\* get_stats_for_user_days(chat, u, 1): the user's rows by date descending,
\* limit 1, so the row of the user's latest date, or none.
Max(S) == CHOOSE x \in S : \A y \in S : x >= y

StatDates(u) == {k[2] : k \in {q \in DOMAIN stats : q[1] = u}}

get_stats_for_user_days(u) ==
    IF StatDates(u) = {} THEN NoStat
    ELSE stats[StatKey(u, Max(StatDates(u)))]

\* The groups of the report, from the lists read by list_all_managers.
chat_group(m) ==
    ManagersOf(m, "admin_chat") \o ManagersOf(m, "senior_chat")
        \o ManagersOf(m, "senior_global") \o <<OWNER_ID>>

call_group(m) ==
    ManagersOf(m, "admin_call") \o ManagersOf(m, "senior_call")
        \o ManagersOf(m, "senior_global") \o <<OWNER_ID>>

\* The four chat counters of a row, as the report prints them.
ChatLine(r) == [messages_count |-> r.messages_count,
                media_count |-> r.media_count,
                voice_count |-> r.voice_count,
                mentions_made_count |-> r.mentions_made_count]

\* fetch(chat_group): the select of the next user of the chat group
NightlyChatStats(s) ==
    /\ slot[s].op = "nightly" /\ slot[s].pc = "chat_stats"
    /\ LET g == chat_group(slot[s].managers)
           uid == g[Len(slot[s].chat_stats) + 1]
           res == Append(slot[s].chat_stats,
                         [uid |-> uid,
                          line |-> ChatLine(get_stats_for_user_days(uid))])
       IN  slot' = [slot EXCEPT
              ![s].chat_stats = res,
              ![s].pc = IF Len(res) < Len(g) THEN "chat_stats"
                        ELSE "call_stats"]
    /\ UNCHANGED <<pmVars, report, notes, now, dbVars, jobs, nightlyDue, kb, ops>>

\* The loop over call_group: the select of its next user
NightlyCallStats(s) ==
    /\ slot[s].op = "nightly" /\ slot[s].pc = "call_stats"
    /\ LET g == call_group(slot[s].managers)
           uid == g[Len(slot[s].call_stats) + 1]
           res == Append(slot[s].call_stats,
                         [uid |-> uid,
                          sec |-> get_stats_for_user_days(uid).call_time_sec])
       IN  slot' = [slot EXCEPT
              ![s].call_stats = res,
              ![s].pc = IF Len(res) < Len(g) THEN "call_stats"
                        ELSE "send_chat"]
    /\ UNCHANGED <<pmVars, report, notes, now, dbVars, jobs, nightlyDue, kb, ops>>

\* The three messages of the report, all headed by the job's date y: the
\* chat counters, the call times, the mentions.  A message that is not
\* delivered raises out of the job; the messages before it have been sent.
NightlySendChat(s, delivered) ==
    /\ slot[s].op = "nightly" /\ slot[s].pc = "send_chat"
    /\ IF delivered
       THEN /\ report' = [report EXCEPT !.chat =
                   [day |-> slot[s].day, lines |-> slot[s].chat_stats]]
            /\ slot' = [slot EXCEPT ![s].pc = "send_call"]
       ELSE /\ slot' = [slot EXCEPT ![s] = Raised(s, "network")]
            /\ UNCHANGED report
    /\ UNCHANGED <<pmVars, notes, now, dbVars, jobs, nightlyDue, kb, ops>>

NightlySendCall(s, delivered) ==
    /\ slot[s].op = "nightly" /\ slot[s].pc = "send_call"
    /\ IF delivered
       THEN /\ report' = [report EXCEPT !.call =
                   [day |-> slot[s].day, lines |-> slot[s].call_stats]]
            /\ slot' = [slot EXCEPT ![s].pc = "send_mentions"]
       ELSE /\ slot' = [slot EXCEPT ![s] = Raised(s, "network")]
            /\ UNCHANGED report
    /\ UNCHANGED <<pmVars, notes, now, dbVars, jobs, nightlyDue, kb, ops>>

MentionLine(e) == [uid |-> e.uid, men |-> e.line.mentions_made_count]

NightlySendMentions(s, delivered) ==
    /\ slot[s].op = "nightly" /\ slot[s].pc = "send_mentions"
    /\ IF delivered
       THEN /\ report' = [report EXCEPT !.mentions =
                   [day |-> slot[s].day,
                    lines |-> [i \in DOMAIN slot[s].chat_stats |->
                                  MentionLine(slot[s].chat_stats[i])]]]
            /\ slot' = [slot EXCEPT ![s] = Free]
       ELSE /\ slot' = [slot EXCEPT ![s] = Raised(s, "network")]
            /\ UNCHANGED report
    /\ UNCHANGED <<pmVars, notes, now, dbVars, jobs, nightlyDue, kb, ops>>

----------------------------------------------------------------------------
(* DB.update_call_time_aggregate_for_day applied on its own to a user and a *)
(* date, at any moment and any number of times: the select with the loop    *)
(* over its rows, then the upsert.  The call is a coroutine of its own and  *)
(* no instance of nightly_stats_job: the job queue starts the nightly run   *)
(* beside it.                                                               *)

\* The date the function is applied to: the day the clock starts on, which
\* is the day the nightly run of the first midnight recomputes.  Sessions
\* started after that midnight are rows of another date.
AggDays == {Date(StartTime)}

\* The runs are counted with the updates.
StartAggregate(s, u, d) ==
    /\ s = AggSlot /\ IsFree(s)
    /\ ops < MaxOps /\ ops' = ops + 1
    /\ slot' = [slot EXCEPT ![s] =
          [Free EXCEPT !.op = "agg", !.pc = "fetch", !.user = u, !.day = d]]
    /\ UNCHANGED <<pmVars, report, notes, now, dbVars, jobs, nightlyDue, kb>>

\* the select and the loop over its rows
AggFetch(s) ==
    /\ slot[s].op = "agg" /\ slot[s].pc = "fetch"
    /\ slot' = [slot EXCEPT
          ![s].total = CallTotal(slot[s].user, slot[s].day, now),
          ![s].pc = "write"]
    /\ UNCHANGED <<pmVars, report, notes, now, dbVars, jobs, nightlyDue, kb, ops>>

\* the upsert.  stats_daily.user_id references users(user_id): for a user
\* with no row in table users the insert raises and writes nothing.
AggWrite(s) ==
    /\ slot[s].op = "agg" /\ slot[s].pc = "write"
    /\ stats' = IF slot[s].user \in users
                THEN SetCallTime(slot[s].user, slot[s].day, slot[s].total)
                ELSE stats
    /\ slot' = [slot EXCEPT ![s] =
          IF slot[s].user \in users THEN Free ELSE Raised(s, "storage")]
    /\ UNCHANGED <<pmVars, report, notes, now, sessions, roles, banned, users,
                   jobs, nightlyDue, kb, ops>>

AggSteps(s) == AggFetch(s) \/ AggWrite(s)

----------------------------------------------------------------------------
(* The private contact flow: cb_pm arms a contact for its user, the user's  *)
(* next private message is relayed by handle_pm_any to the guard chat or    *)
(* to the owner, and a manager may block the user with the button under     *)
(* the relayed message (cb_block_dm).                                       *)

PmKinds == {"guard", "owner", "mystats"}

is_contact_blocked(u) == contact_blocks[u].blocked

set_contact_block(u, blocked) ==
    [contact_blocks EXCEPT ![u] = [blocked |-> blocked, updated_at |-> now]]

\* cb_pm: the button pm|kind pressed by u in the private chat.
StartCbPm(s, u, k) ==
    /\ CanStart(s)
    /\ ops < MaxPmOps /\ ops' = ops + 1
    /\ slot' = [slot EXCEPT ![s] =
          [Free EXCEPT !.op = "cb_pm", !.pc = "answer", !.user = u,
                       !.kind = k]]
    /\ UNCHANGED <<pmVars, report, notes, now, dbVars, jobs, nightlyDue, kb>>

\* query.answer
CbPmAnswer(s, ok) ==
    /\ slot[s].op = "cb_pm" /\ slot[s].pc = "answer"
    /\ slot' = [slot EXCEPT ![s] =
          IF ok THEN [@ EXCEPT !.pc = "ensure_user"]
          ELSE Raised(s, "network")]
    /\ UNCHANGED <<pmVars, report, notes, now, dbVars, jobs, nightlyDue, kb, ops>>

\* ensure_user
CbPmEnsureUser(s) ==
    /\ slot[s].op = "cb_pm" /\ slot[s].pc = "ensure_user"
    /\ users' = upsert_user(slot[s].user)
    /\ slot' = [slot EXCEPT ![s].pc =
          IF slot[s].kind = "mystats" THEN "mystats" ELSE "is_blocked"]
    /\ UNCHANGED <<pmVars, report, notes, now, sessions, stats, roles, banned,
                   jobs, nightlyDue, kb, ops>>

\* send_stats_for_user
CbPmStats(s, ok) ==
    /\ slot[s].op = "cb_pm" /\ slot[s].pc = "mystats"
    /\ slot' = [slot EXCEPT ![s] =
          IF ok THEN Free ELSE Raised(s, "network")]
    /\ UNCHANGED <<pmVars, report, notes, now, dbVars, jobs, nightlyDue, kb, ops>>

CbPmIsBlocked(s) ==
    /\ slot[s].op = "cb_pm" /\ slot[s].pc = "is_blocked"
    /\ slot' = [slot EXCEPT ![s].pc =
          IF is_contact_blocked(slot[s].user) THEN "edit_closed" ELSE "arm"]
    /\ UNCHANGED <<pmVars, report, notes, now, dbVars, jobs, nightlyDue, kb, ops>>

\* edit_message_text: the access is closed
CbPmEditClosed(s, ok) ==
    /\ slot[s].op = "cb_pm" /\ slot[s].pc = "edit_closed"
    /\ slot' = [slot EXCEPT ![s] =
          IF ok THEN Free ELSE Raised(s, "network")]
    /\ UNCHANGED <<pmVars, report, notes, now, dbVars, jobs, nightlyDue, kb, ops>>

\* The upsert of contact_states: kind = the button's, waiting = true.  The
\* count of the messages relayed since the arming starts again.
CbPmArm(s) ==
    /\ slot[s].op = "cb_pm" /\ slot[s].pc = "arm"
    /\ contact_states' = [contact_states EXCEPT ![slot[s].user] =
          [kind |-> slot[s].kind, waiting |-> TRUE]]
    /\ relayed' = [relayed EXCEPT ![slot[s].user] = 0]
    /\ slot' = [slot EXCEPT ![s].pc = "edit"]
    /\ UNCHANGED <<contact_blocks, blockKb, report, notes, now, dbVars, jobs,
                   nightlyDue, kb, ops>>

\* edit_message_text: the "send one message" button
CbPmEdit(s, ok) ==
    /\ slot[s].op = "cb_pm" /\ slot[s].pc = "edit"
    /\ slot' = [slot EXCEPT ![s] =
          IF ok THEN Free ELSE Raised(s, "network")]
    /\ UNCHANGED <<pmVars, report, notes, now, dbVars, jobs, nightlyDue, kb, ops>>

\* handle_pm_any: a private message of u that is no command.
StartPm(s, u) ==
    /\ CanStart(s)
    /\ ops < MaxPmOps /\ ops' = ops + 1
    /\ slot' = [slot EXCEPT ![s] =
          [Free EXCEPT !.op = "pm", !.pc = "fetch_state", !.user = u]]
    /\ UNCHANGED <<pmVars, report, notes, now, dbVars, jobs, nightlyDue, kb>>

\* select * from contact_states; return when there is no row or the row is
\* not waiting
PmFetchState(s) ==
    /\ slot[s].op = "pm" /\ slot[s].pc = "fetch_state"
    /\ slot' = [slot EXCEPT ![s] =
          IF ~contact_states[slot[s].user].waiting THEN Free
          ELSE [@ EXCEPT !.kind = contact_states[slot[s].user].kind,
                         !.pc = "is_blocked"]]
    /\ UNCHANGED <<pmVars, report, notes, now, dbVars, jobs, nightlyDue, kb, ops>>

\* Variant: the handler does not look at contact_blocks.
PmIsBlocked_skipped(s) ==
    /\ slot[s].op = "pm" /\ slot[s].pc = "is_blocked"
    /\ slot' = [slot EXCEPT ![s].pc = "send_header"]
    /\ UNCHANGED <<pmVars, report, notes, now, dbVars, jobs, nightlyDue, kb, ops>>

PmIsBlocked(s) ==
    /\ slot[s].op = "pm" /\ slot[s].pc = "is_blocked"
    /\ slot' = [slot EXCEPT ![s].pc =
          IF is_contact_blocked(slot[s].user) THEN "reply_blocked"
          ELSE "send_header"]
    /\ UNCHANGED <<pmVars, report, notes, now, dbVars, jobs, nightlyDue, kb, ops>>

\* reply_text: sending is closed for you
PmReplyBlocked(s, ok) ==
    /\ slot[s].op = "pm" /\ slot[s].pc = "reply_blocked"
    /\ slot' = [slot EXCEPT ![s] =
          IF ok THEN [@ EXCEPT !.pc = "clear_blocked"]
          ELSE Raised(s, "network")]
    /\ UNCHANGED <<pmVars, report, notes, now, dbVars, jobs, nightlyDue, kb, ops>>

\* update contact_states set waiting = false, then return
PmClearBlocked(s) ==
    /\ slot[s].op = "pm" /\ slot[s].pc = "clear_blocked"
    /\ contact_states' = [contact_states EXCEPT ![slot[s].user].waiting = FALSE]
    /\ slot' = [slot EXCEPT ![s] = Free]
    /\ UNCHANGED <<contact_blocks, relayed, blockKb, report, notes, now,
                   dbVars, jobs, nightlyDue, kb, ops>>

\* try: send_message of the header to the guard chat or the owner
PmSendHeader(s, ok) ==
    /\ slot[s].op = "pm" /\ slot[s].pc = "send_header"
    /\ slot' = [slot EXCEPT ![s].pc = IF ok THEN "copy" ELSE "reply_failed"]
    /\ UNCHANGED <<pmVars, report, notes, now, dbVars, jobs, nightlyDue, kb, ops>>

\* try: message.copy to the guard chat or the owner
PmCopy(s, ok) ==
    /\ slot[s].op = "pm" /\ slot[s].pc = "copy"
    /\ relayed' = IF ok THEN [relayed EXCEPT ![slot[s].user] = @ + 1]
                  ELSE relayed
    /\ slot' = [slot EXCEPT ![s].pc = IF ok THEN "send_kb" ELSE "reply_failed"]
    /\ UNCHANGED <<contact_states, contact_blocks, blockKb, report, notes,
                   now, dbVars, jobs, nightlyDue, kb, ops>>

\* try: send_message of the reply and block buttons
PmSendKb(s, ok) ==
    /\ slot[s].op = "pm" /\ slot[s].pc = "send_kb"
    /\ blockKb' = IF ok THEN blockKb \cup {slot[s].user} ELSE blockKb
    /\ slot' = [slot EXCEPT ![s].pc = IF ok THEN "clear" ELSE "reply_failed"]
    /\ UNCHANGED <<contact_states, contact_blocks, relayed, report, notes,
                   now, dbVars, jobs, nightlyDue, kb, ops>>

\* Variant: the except branch clears the waiting flag.
PmReplyFailed_clears(s, ok) ==
    /\ slot[s].op = "pm" /\ slot[s].pc = "reply_failed"
    /\ contact_states' = [contact_states EXCEPT ![slot[s].user].waiting = FALSE]
    /\ slot' = [slot EXCEPT ![s] =
          IF ok THEN Free ELSE Raised(s, "network")]
    /\ UNCHANGED <<contact_blocks, relayed, blockKb, report, notes, now,
                   dbVars, jobs, nightlyDue, kb, ops>>

\* except Exception: log, reply_text "not sent, try once more", return
PmReplyFailed(s, ok) ==
    /\ slot[s].op = "pm" /\ slot[s].pc = "reply_failed"
    /\ slot' = [slot EXCEPT ![s] =
          IF ok THEN Free ELSE Raised(s, "network")]
    /\ UNCHANGED <<pmVars, report, notes, now, dbVars, jobs, nightlyDue, kb, ops>>

\* update contact_states set waiting = false
PmClear(s) ==
    /\ slot[s].op = "pm" /\ slot[s].pc = "clear"
    /\ contact_states' = [contact_states EXCEPT ![slot[s].user].waiting = FALSE]
    /\ slot' = [slot EXCEPT ![s].pc = "ack"]
    /\ UNCHANGED <<contact_blocks, relayed, blockKb, report, notes, now,
                   dbVars, jobs, nightlyDue, kb, ops>>

\* send_message to the user: received, with the "send again" button
PmAck(s, ok) ==
    /\ slot[s].op = "pm" /\ slot[s].pc = "ack"
    /\ slot' = [slot EXCEPT ![s] =
          IF ok THEN Free ELSE Raised(s, "network")]
    /\ UNCHANGED <<pmVars, report, notes, now, dbVars, jobs, nightlyDue, kb, ops>>

\* cb_block_dm: admin presses the block button under a relayed message of
\* target.  For the owner is_manager answers with no wait.
StartBlockDm(s, admin, target) ==
    /\ CanStart(s)
    /\ target \in blockKb
    /\ ops < MaxPmOps /\ ops' = ops + 1
    /\ slot' = [slot EXCEPT ![s] =
          [Free EXCEPT !.op = "blockdm", !.user = admin, !.author = target,
                       !.pc = IF is_owner(admin) THEN "set_block"
                              ELSE "is_manager"]]
    /\ UNCHANGED <<pmVars, report, notes, now, dbVars, jobs, nightlyDue, kb>>

\* is_manager of a presser who is not the owner (has_any_role); a presser
\* who is no manager gets the alert
BlockDmIsManager(s, ok) ==
    /\ slot[s].op = "blockdm" /\ slot[s].pc = "is_manager"
    /\ slot' = [slot EXCEPT ![s] =
          IF is_manager(slot[s].user) THEN [@ EXCEPT !.pc = "set_block"]
          ELSE IF ok THEN Free ELSE Raised(s, "network")]
    /\ UNCHANGED <<pmVars, report, notes, now, dbVars, jobs, nightlyDue, kb, ops>>

BlockDmSet(s) ==
    /\ slot[s].op = "blockdm" /\ slot[s].pc = "set_block"
    /\ contact_blocks' = set_contact_block(slot[s].author, TRUE)
    /\ slot' = [slot EXCEPT ![s].pc = "answer"]
    /\ UNCHANGED <<contact_states, relayed, blockKb, report, notes, now,
                   dbVars, jobs, nightlyDue, kb, ops>>

\* q.answer and edit_message_text
BlockDmAnswer(s, ok) ==
    /\ slot[s].op = "blockdm" /\ slot[s].pc = "answer"
    /\ slot' = [slot EXCEPT ![s] =
          IF ok THEN Free ELSE Raised(s, "network")]
    /\ UNCHANGED <<pmVars, report, notes, now, dbVars, jobs, nightlyDue, kb, ops>>

CbPmSteps(s) ==
    \/ \E ok \in BOOLEAN : CbPmAnswer(s, ok)
    \/ \E ok \in BOOLEAN : CbPmStats(s, ok)
    \/ CbPmEnsureUser(s)
    \/ CbPmIsBlocked(s)
    \/ \E ok \in BOOLEAN : CbPmEditClosed(s, ok)
    \/ CbPmArm(s)
    \/ \E ok \in BOOLEAN : CbPmEdit(s, ok)

PmSteps(s) ==
    \/ PmFetchState(s)
    \/ PmIsBlocked(s)
    \/ \E ok \in BOOLEAN : PmReplyBlocked(s, ok)
    \/ PmClearBlocked(s)
    \/ \E ok \in BOOLEAN : PmSendHeader(s, ok)
    \/ \E ok \in BOOLEAN : PmCopy(s, ok)
    \/ \E ok \in BOOLEAN : PmSendKb(s, ok)
    \/ \E ok \in BOOLEAN : PmReplyFailed(s, ok)
    \/ PmClear(s)
    \/ \E ok \in BOOLEAN : PmAck(s, ok)

\* The steps of cb_pm and of handle_pm_any for a user who is not blocked.
UnblockedCbPmSteps(s) ==
    \/ \E ok \in BOOLEAN : CbPmAnswer(s, ok)
    \/ \E ok \in BOOLEAN : CbPmStats(s, ok)
    \/ CbPmEnsureUser(s)
    \/ CbPmIsBlocked(s)
    \/ CbPmArm(s)
    \/ \E ok \in BOOLEAN : CbPmEdit(s, ok)

UnblockedPmSteps(s) ==
    \/ PmFetchState(s)
    \/ PmIsBlocked(s)
    \/ \E ok \in BOOLEAN : PmSendHeader(s, ok)
    \/ \E ok \in BOOLEAN : PmCopy(s, ok)
    \/ \E ok \in BOOLEAN : PmSendKb(s, ok)
    \/ \E ok \in BOOLEAN : PmReplyFailed(s, ok)
    \/ PmClear(s)
    \/ \E ok \in BOOLEAN : PmAck(s, ok)

BlockDmSteps(s) ==
    \/ \E ok \in BOOLEAN : BlockDmIsManager(s, ok)
    \/ BlockDmSet(s)
    \/ \E ok \in BOOLEAN : BlockDmAnswer(s, ok)

----------------------------------------------------------------------------
(* Storage failures: the statement of add_session, of end_session or of     *)
(* bump_stat fails (the store is unreachable or returns an error).  A       *)
(* failed statement changes no row; asyncpg raises, and neither DB nor the  *)
(* handler catches.                                                         *)

\* Variant: the check-in logs the failed insert and goes on.
SessionSelectAddFails_swallowed(s) ==
    /\ slot[s].op = "sess" /\ slot[s].pc = "add"
    /\ slot' = [slot EXCEPT ![s].pc = "notify"]
    /\ UNCHANGED <<pmVars, report, notes, now, dbVars, jobs, nightlyDue, kb, ops>>

SessionSelectAddFails(s) ==
    /\ slot[s].op = "sess" /\ slot[s].pc = "add"
    /\ slot' = [slot EXCEPT ![s] = Raised(s, "storage")]
    /\ UNCHANGED <<pmVars, report, notes, now, dbVars, jobs, nightlyDue, kb, ops>>

\* The end_session statement of the idle job fails, whether it would have
\* found a row or not.
IdleEndFails(s) ==
    /\ slot[s].op = "idle" /\ slot[s].pc \in {"end_session", "update"}
    /\ slot' = [slot EXCEPT ![s] = Raised(s, "storage")]
    /\ UNCHANGED <<pmVars, report, notes, now, dbVars, jobs, nightlyDue, kb, ops>>

\* The insert of bump_stat fails.
MessageBumpStatFails(s) ==
    /\ slot[s].op = "msg" /\ slot[s].pc = "bump_stat"
    /\ slot' = [slot EXCEPT ![s] = Raised(s, "storage")]
    /\ UNCHANGED <<pmVars, report, notes, now, dbVars, jobs, nightlyDue, kb, ops>>

----------------------------------------------------------------------------
(* The dispatch of a message update.  build_application registers every     *)
(* handler in group 0, and of the handlers of one group the application     *)
(* runs the first whose filter accepts the update, and no other.            *)

ChatTypes == {"group", "private", "channel"}   \* "group": the main chat
\* "checkout": a text that begins with the check-out command; "checkin": one
\* that begins with the check-in command
Contents == {"checkout", "checkin", "text", "media", "/start"}

IsText(c) == c # "media"
IsCommand(c) == c = "/start"

\* The message handlers in the order of their registration, each with its
\* filter.
MessageHandlers ==
    << "cmd_start", "handle_pm_any", "maybe_prompt_session",
       "handle_game_answer", "handle_text_commands" >>

Accepts(h, chat, c) ==
    CASE h = "cmd_start" -> IsCommand(c) /\ chat = "private"
      [] h = "handle_pm_any" -> chat = "private" /\ ~IsCommand(c)
      [] h = "maybe_prompt_session" -> chat = "group" /\ ~IsCommand(c)
      [] h = "handle_game_answer" ->
            chat = "group" /\ IsText(c) /\ ~IsCommand(c)
      [] h = "handle_text_commands" -> IsText(c) /\ ~IsCommand(c)
      [] OTHER -> FALSE

Dispatch(chat, c) ==
    LET hits == {n \in DOMAIN MessageHandlers :
                    Accepts(MessageHandlers[n], chat, c)}
    IN  IF hits = {} THEN "none"
        ELSE MessageHandlers[CHOOSE n \in hits : \A m \in hits : n <= m]

\* cmd_start: /start of u in a private chat.
StartCmdStart(s, u) ==
    /\ CanStart(s)
    /\ ops < MaxOps /\ ops' = ops + 1
    /\ slot' = [slot EXCEPT ![s] =
          [Free EXCEPT !.op = "cmd_start", !.pc = "send_panel", !.user = u]]
    /\ UNCHANGED <<pmVars, report, notes, now, dbVars, jobs, nightlyDue, kb>>

\* send_message of the panel to the user; a failed send raises
CmdStartSend(s, ok) ==
    /\ slot[s].op = "cmd_start" /\ slot[s].pc = "send_panel"
    /\ slot' = [slot EXCEPT ![s] =
          IF ok THEN Free ELSE Raised(s, "network")]
    /\ UNCHANGED <<pmVars, report, notes, now, dbVars, jobs, nightlyDue, kb, ops>>

\* handle_text_commands is left with the channel posts, for which
\* update.message is None: it raises on update.message.text before it looks
\* at its table of commands, so that cmd_register_open and
\* cmd_register_close are not reached.
StartTextCommands(s, u, c) ==
    /\ CanStart(s)
    /\ ops < MaxOps /\ ops' = ops + 1
    /\ slot' = [slot EXCEPT ![s] =
          [Free EXCEPT !.op = "text", !.user = u, !.inp = c,
                       !.pc = "raised", !.err = "attribute"]]
    /\ UNCHANGED <<pmVars, report, notes, now, dbVars, jobs, nightlyDue, kb>>

\* An update that no handler accepts is dropped.
DropUpdate(s) ==
    /\ CanStart(s)
    /\ ops < MaxOps /\ ops' = ops + 1
    /\ UNCHANGED <<pmVars, report, notes, now, dbVars, jobs, nightlyDue, kb,
                   slot>>

\* User u sends content c to a chat of type chat: the handler that the
\* dispatch selects starts.  In the main chat the message goes to
\* maybe_prompt_session, whatever its text; in a private chat /start goes to
\* cmd_start and every other message to handle_pm_any.
Deliver(s, u, chat, c) ==
    /\ CanStart(s) /\ ops < MaxOps
    /\ LET h == Dispatch(chat, c)
       IN  CASE h = "maybe_prompt_session" -> StartMessage(s, u, c)
             [] h = "handle_pm_any" -> StartPm(s, u)
             [] h = "cmd_start" -> StartCmdStart(s, u)
             [] h = "handle_text_commands" -> StartTextCommands(s, u, c)
             [] OTHER -> DropUpdate(s)

\* ChatMemberHandler(on_chat_member, MY_CHAT_MEMBER | CHAT_MEMBER): the
\* handler's type is -1 | 0 = -1, which accepts my_chat_member updates alone.
\* For such an update update.chat_member is None, and on_chat_member raises
\* on upd.new_chat_member before it reaches ensure_user.  A chat_member
\* update (a user joins or leaves) has no handler.
ChatMemberKinds == {"my_chat_member", "chat_member"}

ChatMemberUpdate(s, u, kind) ==
    /\ CanStart(s)
    /\ ops < MaxOps /\ ops' = ops + 1
    /\ slot' = [slot EXCEPT ![s] =
          IF kind = "my_chat_member"
          THEN [Free EXCEPT !.op = "member", !.user = u,
                            !.pc = "raised", !.err = "attribute"]
          ELSE Free]
    /\ UNCHANGED <<pmVars, report, notes, now, dbVars, jobs, nightlyDue, kb>>

----------------------------------------------------------------------------
(* A restart of the process.  The tables and the keyboards already sent     *)
(* persist; the coroutines in flight and the job queue, which lives in      *)
(* memory, are lost.  post_init schedules the nightly job for the next      *)
(* local midnight and no idle job.                                          *)
Restart ==
    /\ jobs' = {}
    /\ slot' = [s \in Slots |-> Free]
    /\ nightlyDue' = (Date(now) + 1) * DaySecs
    /\ UNCHANGED <<pmVars, report, notes, now, dbVars, kb, ops>>

----------------------------------------------------------------------------
\* DB.init has seeded the owner's row of table users and the role "owner".
Init ==
    /\ now = StartTime
    /\ sessions = <<>>
    /\ stats = <<>>
    /\ roles = [u \in Users |-> IF u = OWNER_ID THEN {"owner"} ELSE {}]
    /\ banned = {}
    /\ users = {OWNER_ID}
    /\ jobs = {}
    /\ nightlyDue = DaySecs
    /\ kb = {}
    /\ ops = 0
    /\ notes = [u \in Users |-> 0]
    /\ report = NoReport
    /\ contact_states = [u \in Users |-> NoContact]
    /\ contact_blocks = [u \in Users |-> NoBlock]
    /\ relayed = [u \in Users |-> 0]
    /\ blockKb = {}
    /\ slot = [s \in Slots |-> Free]

(* The steps of the coroutine in slot s, by handler *)

SessSteps(s) ==
    \/ SessionSelectCheck(s)
    \/ \E ok \in BOOLEAN : SessionSelectAnswer(s, ok)
    \/ SessionSelectAdd(s)
    \/ \E ok \in BOOLEAN : SessionSelectNotify(s, ok)

IdleSteps(s) ==
    \/ \E j \in jobs : IdleFire(s, j)
    \/ IdleCheck(s)
    \/ IdleEnd(s)
    \/ IdleUpdate(s)
    \/ \E ok \in BOOLEAN : IdleNotify(s, ok)

\* The steps of a message of the owner, for whom is_manager has no wait.
OwnerMsgSteps(s) ==
    \/ MessageIsBanned(s)
    \/ MessageBumpStat(s)
    \/ MessageCheck(s)
    \/ \E ok \in BOOLEAN : MessagePrompt(s, ok)

MsgSteps(s) ==
    \/ OwnerMsgSteps(s)
    \/ MessageIsManager(s)

NightlySteps(s) ==
    \/ NightlyFire(s)
    \/ NightlyList(s)
    \/ NightlyFetch(s)
    \/ NightlyWrite(s)
    \/ NightlyChatStats(s)
    \/ NightlyCallStats(s)
    \/ \E delivered \in BOOLEAN : NightlySendChat(s, delivered)
    \/ \E delivered \in BOOLEAN : NightlySendCall(s, delivered)
    \/ \E delivered \in BOOLEAN : NightlySendMentions(s, delivered)

(* Presence in the main chat: both users send text messages and press the   *)
(* buttons of the keyboards that were issued, one update after another,     *)
(* and the idle jobs and the nightly job run beside the handlers.  The      *)
(* owner is the only manager: only the owner is sent a keyboard.            *)
Next ==
    \/ Tick
    \/ \E s \in Slots :
         \/ \E u \in Users : StartMessage(s, u, "text")
         \/ \E u \in Users, a \in Users, k \in Kinds :
               StartSessionSelect(s, u, a, k)
         \/ MsgSteps(s) \/ SessSteps(s)
         \/ IdleSteps(s) \/ NightlySteps(s)
         \/ HandlerRaised(s)

Spec == Init /\ [][Next]_vars

(* The counters: the owner sends messages of every counted sort, the other  *)
(* user sends text, and the insert of bump_stat may fail.  No session is    *)
(* opened, so that an idle job ends at its check.                           *)
StatInputs == {"text", "media", "voice", "mention"}

NextStats ==
    \/ Tick
    \/ \E s \in Slots :
         \/ /\ ops < MaxMsgs
            /\ \/ \E inp \in StatInputs : StartMessage(s, OWNER_ID, inp)
               \/ \E u \in Actors : StartMessage(s, u, "text")
         \/ MsgSteps(s)
         \/ MessageBumpStatFails(s)
         \/ \E j \in jobs : IdleFire(s, j)
         \/ IdleCheck(s)
         \/ NightlySteps(s)
         \/ HandlerRaised(s)

SpecStats == Init /\ [][NextStats]_vars

(* The owner's presence with a store that may fail at the insert of a       *)
(* check-in and at the close of the idle job.                               *)
NextFail ==
    \/ Tick
    \/ \E s \in Slots :
         \/ StartMessage(s, OWNER_ID, "text")
         \/ \E k \in Kinds : StartSessionSelect(s, OWNER_ID, OWNER_ID, k)
         \/ OwnerMsgSteps(s) \/ SessSteps(s)
         \/ IdleSteps(s) \/ NightlySteps(s)
         \/ SessionSelectAddFails(s)
         \/ IdleEndFails(s)
         \/ HandlerRaised(s)

SpecFail == Init /\ [][NextFail]_vars

(* The owner in the main chat, in private and in a channel: every message   *)
(* and every chat member update goes through the dispatch.  In private the  *)
(* owner sends /start, arms contacts with the buttons of the panel and      *)
(* sends messages, which handle_pm_any relays; no user is blocked.          *)
NextDispatch ==
    \/ Tick
    \/ \E s \in Slots :
         \/ \E chat \in ChatTypes, c \in Contents :
               Deliver(s, OWNER_ID, chat, c)
         \/ \E u \in Actors, kind \in ChatMemberKinds :
               ChatMemberUpdate(s, u, kind)
         \/ \E k \in Kinds : StartSessionSelect(s, OWNER_ID, OWNER_ID, k)
         \/ ops < MaxOps /\ \E k \in PmKinds : StartCbPm(s, OWNER_ID, k)
         \/ \E ok \in BOOLEAN : CmdStartSend(s, ok)
         \/ UnblockedCbPmSteps(s) \/ UnblockedPmSteps(s)
         \/ OwnerMsgSteps(s) \/ SessSteps(s)
         \/ IdleSteps(s) \/ NightlySteps(s)
         \/ HandlerRaised(s)

SpecDispatch == Init /\ [][NextDispatch]_vars

(* The owner's presence in a process that may restart.                      *)
NextRestart ==
    \/ Tick
    \/ Restart
    \/ \E s \in Slots :
         \/ StartMessage(s, OWNER_ID, "text")
         \/ \E k \in Kinds : StartSessionSelect(s, OWNER_ID, OWNER_ID, k)
         \/ OwnerMsgSteps(s) \/ SessSteps(s)
         \/ IdleSteps(s) \/ NightlySteps(s)
         \/ HandlerRaised(s)

SpecRestart == Init /\ [][NextRestart]_vars

(* The owner's Call sessions over several nights: the clock runs on to the  *)
(* times the idle jobs are due at and, from a day that has come to rest,    *)
(* to the following midnights, and the nightly job runs at each.            *)
NextNights ==
    \/ Tick
    \/ JobTime
    \/ Midnight
    \/ \E s \in Slots :
         \/ StartMessage(s, OWNER_ID, "text")
         \/ StartSessionSelect(s, OWNER_ID, OWNER_ID, "call")
         \/ OwnerMsgSteps(s) \/ SessSteps(s)
         \/ IdleSteps(s) \/ NightlySteps(s)
         \/ HandlerRaised(s)

SpecNights == Init /\ [][NextNights]_vars

(* The call time aggregation as a function of the tables: beside the        *)
(* owner's messages and Call check-ins, the idle jobs and the nightly job,  *)
(* update_call_time_aggregate_for_day is run for a user and a date at any   *)
(* moment, any number of times.                                             *)
NextAgg ==
    \/ Tick
    \/ \E s \in Slots :
         \/ StartMessage(s, OWNER_ID, "text")
         \/ StartSessionSelect(s, OWNER_ID, OWNER_ID, "call")
         \/ \E u \in Users, d \in AggDays : StartAggregate(s, u, d)
         \/ OwnerMsgSteps(s) \/ SessSteps(s)
         \/ IdleSteps(s) \/ NightlySteps(s)
         \/ AggSteps(s)
         \/ HandlerRaised(s)

SpecAgg == Init /\ [][NextAgg]_vars

(* The private contact flow, one update after another; the flow has no job. *)
(* The user without a role arms contacts and sends private messages; either *)
(* user presses the block button.                                           *)
NextContact ==
    \E s \in Slots :
       \/ \E u \in Actors, k \in PmKinds : StartCbPm(s, u, k)
       \/ \E u \in Actors : StartPm(s, u)
       \/ \E admin \in Users, target \in Actors : StartBlockDm(s, admin, target)
       \/ CbPmSteps(s) \/ PmSteps(s) \/ BlockDmSteps(s)
       \/ HandlerRaised(s)

SpecContact == Init /\ [][NextContact]_vars


----------------------------------------------------------------------------
(* Vocabulary of the properties *)

\* A session row that is still open: active, with no end time.
IsOpen(i) == sessions[i].active /\ sessions[i].end_at = NULL

OpenRows(u) == {i \in Ids : sessions[i].user = u /\ IsOpen(i)}

OpenOfKind(u, k) == {i \in OpenRows(u) : sessions[i].type = k}

\* The coroutine in slot s takes a step.
Steps(s) == slot'[s] # slot[s]

----------------------------------------------------------------------------
(* C2: a check-in for a (user, kind) that has an open session when the      *)
(* handler looks for one creates no row and changes no row: the button      *)
(* handler answers "you already have an open session" and ends (by its      *)
(* return, or by the error of an answer that could not be sent), and the    *)
(* existing session stays open with its start time.                         *)
C2_RepeatedOpenChangesNothing ==
    [][\A s \in Slots :
         /\ ( /\ slot[s].op = "sess" /\ slot[s].pc = "has_active"
              /\ OpenOfKind(slot[s].user, slot[s].kind) # {}
              /\ Steps(s) )
            => (sessions' = sessions /\ slot'[s].pc = "answer_open")
         /\ ( /\ slot[s].op = "sess" /\ slot[s].pc = "answer_open"
              /\ Steps(s) )
            => /\ sessions' = sessions /\ jobs' = jobs
               /\ \/ slot'[s] = Free
                  \/ slot'[s].pc = "raised" /\ slot'[s].err = "network"
         /\ ( /\ slot[s].op = "sess" /\ slot[s].pc = "raised"
              /\ slot[s].err = "network" /\ Steps(s) )
            => (sessions' = sessions /\ jobs' = jobs /\ slot'[s] = Free)
      ]_vars

C2_Witness ==
    \E s \in Slots :
        /\ slot[s].op = "sess" /\ slot[s].pc = "answer_open"
        /\ \E i \in OpenOfKind(slot[s].user, slot[s].kind) :
              sessions[i].start_at < now

(* C3, as claimed: a Call check-in of a user who has a Chat session ends    *)
(* with the Chat session closed and exactly one Call session open.          *)
C3_SwitchClosesChat ==
    \A s \in Slots :
        ( /\ slot[s].op = "sess" /\ slot[s].kind = "call"
          /\ slot[s].pc = "answer_open"
          /\ \E i \in Ids : sessions[i].user = slot[s].user
                            /\ sessions[i].type = "chat" )
        => ( /\ OpenOfKind(slot[s].user, "chat") = {}
             /\ Cardinality(OpenOfKind(slot[s].user, "call")) = 1 )

(* C3, amended: a Call check-in of a user who has an open Chat session is   *)
(* rejected: the handler goes to its "you already have an open session"     *)
(* answer, the Chat session stays open and unchanged, and no Call session   *)
(* is created.                                                              *)
C3_SwitchRejected ==
    [][\A s \in Slots :
         ( /\ slot[s].op = "sess" /\ slot[s].kind = "call"
           /\ slot[s].pc = "has_active"
           /\ OpenOfKind(slot[s].user, "chat") # {}
           /\ Steps(s) )
         => ( /\ slot'[s].pc = "answer_open"
              /\ sessions' = sessions
              /\ OpenOfKind(slot[s].user, "call") = {}
                    => \A i \in Ids : sessions'[i].user = slot[s].user
                                      => sessions'[i].type # "call"
                                         \/ ~sessions'[i].active )
      ]_vars

C3_Witness ==
    \E s \in Slots :
        /\ slot[s].op = "sess" /\ slot[s].kind = "call"
        /\ slot[s].pc = "answer_open"
        /\ OpenOfKind(slot[s].user, "chat") # {}
        /\ OpenOfKind(slot[s].user, "call") = {}

(* C4, as claimed: the idle job never closes a Call session.                *)
C4_IdleNeverClosesCall ==
    \A i \in Ids : sessions[i].type = "call" => sessions[i].ended_by # "auto"

(* C4, amended: the idle job closes a Call session as it closes a Chat      *)
(* session: when it runs end_session and its user has an open session, the  *)
(* statement selects one open session of that user whatever its kind, a     *)
(* most recently started one, and its update marks that row closed with     *)
(* ended_by = "auto", changing no other row.                                *)
C4_IdleClosesLatestOfAnyKind ==
    [][\A s \in Slots :
         /\ ( /\ slot[s].op = "idle" /\ slot[s].pc = "end_session"
              /\ OpenRows(slot[s].user) # {}
              /\ Steps(s) )
            => /\ slot'[s].sid \in OpenRows(slot[s].user)
               /\ \A j \in OpenRows(slot[s].user) :
                     sessions[j].start_at <= sessions[slot'[s].sid].start_at
               /\ slot'[s].at = slot[s].at
               /\ sessions' = sessions
         /\ (slot[s].op = "idle" /\ slot[s].pc = "update" /\ Steps(s))
            => LET i == slot[s].sid
               IN  /\ Len(sessions') = Len(sessions)
                   /\ ~sessions'[i].active
                   /\ sessions'[i].end_at = slot[s].at
                   /\ sessions'[i].ended_by = "auto"
                   /\ sessions'[i].type = sessions[i].type
                   /\ \A j \in Ids \ {i} : sessions'[j] = sessions[j]
      ]_vars

C4_Witness ==
    \E i \in Ids : sessions[i].type = "call" /\ sessions[i].ended_by = "auto"
                   /\ ~sessions[i].active

(* C5: with the 300 s threshold the idle job closes no Chat session whose   *)
(* last activity is less than 300 s in the past.  The opening of a session  *)
(* is an activity, so a Chat session closed by the idle job is at least     *)
(* 300 s old.                                                               *)
C5_IdleClosesOnlyAfterThreshold ==
    \A i \in Ids :
        (sessions[i].type = "chat" /\ sessions[i].ended_by = "auto")
        => sessions[i].end_at - sessions[i].start_at >= IdleSecs

(* C6: a Chat session that is opened and receives no further activity is    *)
(* closed by the idle timeout.  When no coroutine is in flight, only the    *)
(* user's pending idle job can still close the session, so an open Chat     *)
(* session then has one.                                                    *)
C6_OpenChatHasIdleJob ==
    \A u \in Users :
        (Quiet /\ OpenOfKind(u, "chat") # {})
        => \E j \in jobs : j.user = u

(* C7: a close for a user who has no open session changes no session row    *)
(* and no daily row, sends no "session closed" message and is no error.     *)
(* The idle job is the close the application runs: when the job looks for   *)
(* an open session of its user (has_active_session, or the select of        *)
(* end_session) and there is none, the job ends there.                      *)
C7_CloseWithoutSessionIsNoOp ==
    [][\A s \in Slots :
         ( /\ slot[s].op = "idle"
           /\ slot[s].pc \in {"has_active", "end_session"}
           /\ OpenRows(slot[s].user) = {}
           /\ Steps(s) )
         => ( /\ sessions' = sessions
              /\ stats' = stats
              /\ notes' = notes
              /\ jobs' = jobs
              /\ slot'[s] = Free )
      ]_vars

\* The idle job of a user is about to look for an open session, and the
\* user has none.
C7_Witness ==
    \E s \in Slots :
        /\ slot[s].op = "idle" /\ slot[s].pc = "has_active"
        /\ OpenRows(slot[s].user) = {}
        /\ slot[s].user \in kb

(* C8, as claimed: the step that closes a Call session adds the session's   *)
(* duration to the Call seconds of its user's daily row.                    *)
CallSecIn(st, u, d) ==
    IF <<u, d>> \in DOMAIN st THEN st[<<u, d>>].call_time_sec ELSE 0

C8_CloseAddsDuration ==
    [][\A s \in Slots : \A i \in OpenOfKind(slot[s].user, "call") :
         ( /\ slot[s].op = "idle"
           /\ slot[s].pc = "update"
           /\ Steps(s)
           /\ ~sessions'[i].active )
         => CallSecIn(stats', slot[s].user, Date(sessions[i].start_at))
              = CallSecIn(stats, slot[s].user, Date(sessions[i].start_at))
                + (sessions'[i].end_at - sessions[i].start_at)
      ]_vars

\* The duration of row n, an open session counted up to t.  A row whose end
\* is not after its start has lasted no time.
Duration(n, t) ==
    LET end == IF sessions[n].end_at = NULL THEN t ELSE sessions[n].end_at
    IN  IF end > sessions[n].start_at THEN end - sessions[n].start_at ELSE 0

\* Seconds of the Call sessions of u started on day d, among the first n
\* rows, an open session counted up to t.
RECURSIVE CallSecondsStartedOn(_, _, _, _)
CallSecondsStartedOn(n, u, d, t) ==
    IF n = 0 THEN 0
    ELSE CallSecondsStartedOn(n - 1, u, d, t)
         + (IF /\ sessions[n].user = u /\ sessions[n].type = "call"
               /\ Date(sessions[n].start_at) = d
            THEN Duration(n, t)
            ELSE 0)

(* C8, amended: no step of a close (the idle job's) changes a daily row.    *)
(* Call seconds are written by the nightly job alone: for a manager and the *)
(* previous day it reads the sum of the seconds of the user's Call sessions *)
(* started on that day, an open session counted up to the time of the read, *)
(* and stores this sum as the row's call_time_sec, replacing the old value  *)
(* and leaving the message counters and the other rows as they were.  Chat  *)
(* seconds are stored nowhere.                                              *)
C8_CallSecondsSetByNightlyJob ==
    [][\A s \in Slots :
         /\ (slot[s].op = "idle" /\ Steps(s)) => stats' = stats
         /\ (slot[s].op = "nightly" /\ slot[s].pc = "fetch" /\ Steps(s))
            => slot'[s].total =
                 CallSecondsStartedOn(Len(sessions), slot'[s].user,
                                      slot[s].day, now)
         /\ (slot[s].op = "nightly" /\ slot[s].pc = "write" /\ Steps(s))
            => LET key == <<slot[s].user, slot[s].day>>
                   old == IF key \in DOMAIN stats THEN stats[key] ELSE NoStat
               IN  /\ DOMAIN stats' = DOMAIN stats \cup {key}
                   /\ stats'[key] = [old EXCEPT !.call_time_sec = slot[s].total]
                   /\ \A k \in DOMAIN stats \ {key} : stats'[k] = stats[k]
      ]_vars

\* A Call session was closed by the idle job, later than it was started, and
\* the nightly job has stored its seconds.
C8_Witness ==
    \E i \in Ids :
        /\ sessions[i].type = "call" /\ sessions[i].ended_by = "auto"
        /\ sessions[i].end_at > sessions[i].start_at
        /\ CallSecIn(stats, sessions[i].user, Date(sessions[i].start_at))
             = sessions[i].end_at - sessions[i].start_at

(* C9: a Call session that starts before local midnight and is closed after *)
(* it accrues its whole duration to the aggregate of its start date: once   *)
(* the nightly job has written the row of that date, the row's Call seconds *)
(* are at least the session's duration.                                     *)
NightlyDone(d) ==
    /\ nightlyDue > (d + 1) * DaySecs
    /\ \A s \in Slots : slot[s].op # "nightly"

C9_CrossMidnightAccruesToStartDate ==
    \A i \in Ids :
        ( /\ sessions[i].type = "call" /\ ~sessions[i].active
          /\ Date(sessions[i].start_at) < Date(sessions[i].end_at)
          /\ NightlyDone(Date(sessions[i].start_at))
          /\ <<sessions[i].user, Date(sessions[i].start_at)>> \in DOMAIN stats )
        => CallSecIn(stats, sessions[i].user, Date(sessions[i].start_at))
             >= sessions[i].end_at - sessions[i].start_at

(* C10, as claimed: a message of a user who has no open session changes no  *)
(* session row and no daily row.                                            *)
C10_MessageWithoutSessionIsNoOp ==
    [][\A s \in Slots :
         (slot[s].op = "msg" /\ OpenRows(slot[s].user) = {} /\ Steps(s))
         => (sessions' = sessions /\ stats' = stats)
      ]_vars

MsgCountIn(st, u, d) ==
    IF <<u, d>> \in DOMAIN st THEN st[<<u, d>>].messages_count ELSE 0

(* C10, amended: a message of a user who has no open session opens no       *)
(* session and changes no session row, but it is counted: the handler finds *)
(* the user not banned (the ban list is empty: no ban command is            *)
(* dispatched) and writes the user's row of the local date at which it      *)
(* learned so: the statement adds one to messages_count, creating the row   *)
(* if there is none, and changes no other row, or it fails, changes nothing *)
(* and leaves the handler by the storage error.                             *)
C10_MessageWithoutSessionIsCounted ==
    [][\A s \in Slots :
         (slot[s].op = "msg" /\ OpenRows(slot[s].user) = {} /\ Steps(s))
         => LET u == slot[s].user
                key == <<u, Date(slot[s].at)>>
            IN  /\ sessions' = sessions
                /\ slot[s].pc = "is_banned"
                      => /\ stats' = stats
                         /\ slot'[s].pc = "bump_stat"
                         /\ slot'[s].at = now
                /\ slot[s].pc = "bump_stat"
                      => \/ /\ DOMAIN stats' = DOMAIN stats \cup {key}
                            /\ MsgCountIn(stats', u, Date(slot[s].at))
                                 = MsgCountIn(stats, u, Date(slot[s].at)) + 1
                            /\ \A k \in DOMAIN stats \ {key} :
                                  stats'[k] = stats[k]
                            /\ slot'[s].pc # "raised"
                         \/ /\ stats' = stats
                            /\ slot'[s].pc = "raised"
                            /\ slot'[s].err = "storage"
                /\ slot[s].pc \notin {"is_banned", "bump_stat"}
                      => stats' = stats
      ]_vars

C10_Witness ==
    \E s \in Slots :
        /\ slot[s].op = "msg" /\ slot[s].pc \in {"is_manager", "has_active"}
        /\ OpenRows(slot[s].user) = {}
        /\ MsgCountIn(stats, slot[s].user, Date(now)) >= 1

(* C11: a failed "session opened" or "session closed" notification neither  *)
(* rolls back nor repeats the recorded change: the steps of a check-in and  *)
(* of the idle job that follow the write of the session row (the            *)
(* notification, and the handling of its failure) change no session row,    *)
(* and the coroutine ends: it does not return to the write.                 *)
C11_NotificationFailureKeepsChange ==
    [][\A s \in Slots :
         ( /\ slot[s].op \in {"sess", "idle"}
           /\ slot[s].pc \in {"notify", "raised"}
           /\ Steps(s) )
         => ( /\ sessions' = sessions
              /\ slot[s].pc = "notify" => slot'[s].pc \in {"done", "raised"}
              /\ slot[s].pc = "raised" => slot'[s] = Free )
      ]_vars

\* The "session closed" message of an idle job could not be sent: the job
\* is left by the error, and the row it closed is closed.
C11_Witness ==
    \E s \in Slots :
        /\ slot[s].op = "idle" /\ slot[s].pc = "raised"
        /\ slot[s].err = "network"
        /\ \E i \in Ids : /\ sessions[i].user = slot[s].user
                          /\ ~sessions[i].active
                          /\ sessions[i].ended_by = "auto"

(* C12: a notification failure during a check-in or the idle job is caught  *)
(* inside the operation: no such coroutine is ever left by the exception of *)
(* a failed network call.                                                   *)
C12_NotificationFailureIsCaught ==
    \A s \in Slots :
        (slot[s].op \in {"sess", "idle"} /\ slot[s].pc = "raised")
        => slot[s].err # "network"

(* C13: a storage failure of the create of a check-in or of the close       *)
(* (select or update of end_session) of the idle job propagates: the step   *)
(* that fails leaves the coroutine by the storage exception, and the        *)
(* coroutine does nothing afterwards (no notification, no idle job, no      *)
(* keyboard).  No row is left half-changed: the create adds a complete open *)
(* row or none, the update sets active, end_at and ended_by of the selected *)
(* row together or none.                                                    *)
C13_StorageFailurePropagates ==
    [][\A s \in Slots :
         /\ (slot[s].op = "sess" /\ slot[s].pc = "add" /\ Steps(s))
            => \/ /\ sessions' = sessions
                  /\ slot'[s].pc = "raised" /\ slot'[s].err = "storage"
                  /\ UNCHANGED <<pmVars, report, notes, jobs, kb, stats>>
               \/ /\ sessions' = Append(sessions,
                        [user |-> slot[s].user, type |-> slot[s].kind,
                         start_at |-> slot[s].at, end_at |-> NULL,
                         ended_by |-> "null", active |-> TRUE])
                  /\ slot'[s].pc = "notify"
         /\ (slot[s].op = "idle" /\ slot[s].pc = "end_session" /\ Steps(s))
            => /\ sessions' = sessions
               /\ \/ slot'[s].pc = "update"
                  \/ slot'[s] = Free
                  \/ /\ slot'[s].pc = "raised" /\ slot'[s].err = "storage"
                     /\ UNCHANGED <<pmVars, report, notes, jobs, kb, stats>>
         /\ (slot[s].op = "idle" /\ slot[s].pc = "update" /\ Steps(s))
            => LET i == slot[s].sid
               IN  \/ /\ sessions' = sessions
                      /\ slot'[s].pc = "raised" /\ slot'[s].err = "storage"
                      /\ UNCHANGED <<pmVars, report, notes, jobs, kb, stats>>
                   \/ /\ sessions' = [sessions EXCEPT ![i] =
                            [@ EXCEPT !.active = FALSE, !.end_at = slot[s].at,
                                      !.ended_by = "auto"]]
                      /\ slot'[s].pc = "notify"
         /\ ( /\ slot[s].op \in {"sess", "idle"}
              /\ slot[s].pc = "raised" /\ slot[s].err = "storage"
              /\ Steps(s) )
            => /\ slot'[s] = Free
               /\ UNCHANGED <<sessions, notes, jobs, kb, stats>>
      ]_vars

C13_Witness ==
    \E s \in Slots :
        /\ slot[s].op = "sess" /\ slot[s].pc = "raised"
        /\ slot[s].err = "storage"
        /\ \A i \in Ids : sessions[i].user # slot[s].user
        /\ \A j \in jobs : j.user # slot[s].user

(* C14: when a manager who has an open session sends the check-out text in  *)
(* the main chat, the dispatch delivers it to cmd_register_close and the    *)
(* session is closed with ended_by = "user": the coroutine that handles the *)
(* text is the check-out command, and when it ends the manager has no open  *)
(* session.                                                                 *)
C14_CheckoutTextCloses ==
    [][\A s \in Slots :
         /\ ( /\ IsFree(s) /\ slot'[s].inp = "checkout"
              /\ slot'[s].pc # "raised"
              /\ is_manager(slot'[s].user)
              /\ OpenRows(slot'[s].user) # {} )
            => slot'[s].op = "close"
         /\ ( /\ slot[s].inp = "checkout" /\ slot[s].pc # "raised"
              /\ is_manager(slot[s].user)
              /\ slot'[s] = Free )
            => \A i \in Ids : sessions'[i].user = slot[s].user
                              => ~sessions'[i].active
      ]_vars

(* C15: idle closing is correct across restarts: the idle watch over an     *)
(* open Chat session is not lost.  While a user has an open Chat session, a *)
(* pending idle job of that user stays pending, or is replaced, until it    *)
(* fires and its coroutine starts.                                          *)
C15_IdleWatchSurvivesRestart ==
    [][\A u \in Users :
         (OpenOfKind(u, "chat") # {} /\ \E j \in jobs : j.user = u)
         => \/ \E j \in jobs' : j.user = u
            \/ \E s \in Slots : /\ slot[s].op # "idle"
                                /\ slot'[s].op = "idle"
                                /\ slot'[s].user = u
      ]_vars

\* C16: a session row is opened once and closed once; once it is closed
\* (active = false, end_at set) no later step changes the row: it is not
\* reopened and its end_at and ended_by are not written again, however
\* the closes interleave.
C16_ClosedRowNeverChanges ==
    [][\A i \in Ids : ~sessions[i].active => sessions'[i] = sessions[i]]_vars

\* C17: a session row is written only by a coroutine that acts for the
\* row's own user: it is inserted by that user's check-in and closed by the
\* idle job of that user, with ended_by = "auto" (no check-out closes a row:
\* the command is never dispatched).  No step of another user's operation
\* changes the row.
C17_OnlyOwnCloseOrIdle ==
    [][\A i \in DOMAIN sessions' :
         (i \notin Ids \/ sessions'[i] # sessions[i]) =>
            \E s \in Slots :
               /\ Steps(s)
               /\ slot[s].user = sessions'[i].user
               /\ IF i \notin Ids
                  THEN slot[s].op = "sess" /\ sessions'[i].active
                  ELSE /\ ~sessions'[i].active
                       /\ slot[s].op = "idle"
                       /\ sessions'[i].ended_by = "auto"
      ]_vars

\* Another user's press of a button, or another user's message, is being
\* handled while a user has an open session.
C17_Witness ==
    \E s \in Slots, i \in Ids :
       /\ slot[s].op \in {"sess", "msg"} /\ slot[s].pc # "raised"
       /\ slot[s].user # sessions[i].user
       /\ IsOpen(i)

\* C18: once the coroutines have ended, the guard chat has received as many
\* "session closed" messages about a user as the user has closed sessions:
\* one for each.
C18_OneNotePerClosedSession ==
    Quiet => \A u \in Users :
                notes[u] = Cardinality({i \in Ids : /\ sessions[i].user = u
                                                    /\ ~sessions[i].active})

\* C20, as claimed: a check-in of a user whose session is already open is a
\* heartbeat: when it ends, the user's idle job is due a full threshold
\* after it.
C20_RepeatedOpenPostponesIdle ==
    [][\A s \in Slots :
         (slot[s].op = "sess" /\ slot[s].pc = "answer_open" /\ Steps(s))
         => \E j \in jobs' : j.user = slot[s].user /\ j.due = IdleDue(now)
      ]_vars

\* C20, amended: a check-in of a user whose session is already open is
\* turned away and is no heartbeat: from the check that finds the open
\* session to its end it leaves the user's pending idle job and its due
\* time as they were.
C20_RepeatedOpenIsNoHeartbeat ==
    [][\A s \in Slots :
         ( /\ slot[s].op = "sess" /\ Steps(s)
           /\ \/ slot[s].pc = "answer_open"
              \/ ( /\ slot[s].pc = "has_active"
                   /\ has_active_session(slot[s].user) ) )
         => {j \in jobs' : j.user = slot[s].user}
              = {j \in jobs : j.user = slot[s].user}
      ]_vars

\* A check-in is being turned away for an open session whose idle job was
\* armed earlier and is not due yet.
C20_Witness ==
    \E s \in Slots :
       /\ slot[s].op = "sess" /\ slot[s].pc = "answer_open"
       /\ OpenRows(slot[s].user) # {}
       /\ \E j \in jobs : /\ j.user = slot[s].user
                          /\ now < j.due /\ j.due < IdleDue(now)

\* C21: the daily counters are upserted.  A step changes the row of a user
\* and a date only if it is the bump_stat of a message of that user whose
\* handler took that date for it and whose statement does not fail (a
\* message whose statement fails is not counted and changes nothing); that
\* step creates the row if it is absent, adds one to its message count and
\* adds the message's media, voice and mention deltas.  No row is removed.
\* Hence after n counted messages, in any interleaving, the row exists and
\* holds n and the sums of the deltas.
C21_CountersAreUpserted ==
    [][/\ DOMAIN stats \subseteq DOMAIN stats'
       /\ \A s \in Slots :
            ( /\ slot[s].op = "msg" /\ slot[s].pc = "bump_stat"
              /\ slot'[s].pc \in {"is_manager", "has_active"} )
            => StatKey(slot[s].user, Date(slot[s].at)) \in DOMAIN stats'
       /\ \A key \in DOMAIN stats' :
            LET old == IF key \in DOMAIN stats THEN stats[key] ELSE NoStat
                b == {s \in Slots :
                        /\ slot[s].op = "msg" /\ slot[s].pc = "bump_stat"
                        /\ slot'[s].pc \in {"is_manager", "has_active"}
                        /\ StatKey(slot[s].user, Date(slot[s].at)) = key}
                inps == {slot[s].inp : s \in b}
            IN  /\ stats'[key].messages_count
                      = old.messages_count + Cardinality(b)
                /\ stats'[key].media_count
                      = old.media_count + Cardinality(inps \cap {"media"})
                /\ stats'[key].voice_count
                      = old.voice_count + Cardinality(inps \cap {"voice"})
                /\ stats'[key].mentions_made_count
                      = old.mentions_made_count
                          + Cardinality(inps \cap {"mention"})
      ]_vars

\* Two messages of one user have been counted in the user's row of the day,
\* one of them a voice message or a mention, and the handler of the second
\* has just written the row.
C21_Witness ==
    \E u \in Users, s \in Slots :
       /\ slot[s].op = "msg" /\ slot[s].user = u
       /\ slot[s].pc \in {"is_manager", "has_active"}
       /\ StatKey(u, Date(slot[s].at)) \in DOMAIN stats
       /\ stats[StatKey(u, Date(slot[s].at))].messages_count = 2
       /\ stats[StatKey(u, Date(slot[s].at))].voice_count
            + stats[StatKey(u, Date(slot[s].at))].mentions_made_count = 1

\* C22: session rows are history.  No step removes a row, and the id (the
\* row's place in the table), user, kind and start time of a row never
\* change once it is inserted.
C22_SessionRowsAreHistory ==
    [][/\ Len(sessions') >= Len(sessions)
       /\ \A i \in Ids : /\ sessions'[i].user = sessions[i].user
                         /\ sessions'[i].type = sessions[i].type
                         /\ sessions'[i].start_at = sessions[i].start_at
      ]_vars

\* A user's earlier session has been closed, at a later time than it was
\* started, and the user has opened a new one: both rows are in the table.
C22_Witness ==
    \E i \in Ids, j \in Ids :
       /\ i < j /\ sessions[i].user = sessions[j].user
       /\ ~sessions[i].active /\ sessions[i].end_at > sessions[i].start_at
       /\ IsOpen(j)

\* C24: the idle job does not close a session of a user whose activity
\* arrived within the threshold.  An idle job of the user that is pending
\* and not yet due was armed less than 300 s ago, by a message or a
\* check-in of the user: when idle_timeout_job writes its close, the user
\* has no such job.
C24_NoIdleCloseAfterRecentActivity ==
    [][\A s \in Slots :
         (slot[s].op = "idle" /\ slot[s].pc = "update" /\ Steps(s))
         => \A j \in jobs : j.user = slot[s].user => j.due <= now
      ]_vars

\* C25: the keyboards are user-scoped.  A check-in started by the press of
\* a button of a keyboard built for another user is answered with the
\* alert and ends, by its return or by the error of an alert that could not
\* be sent; none of its steps inserts a session, arms an idle job or
\* changes any stored state.
C25_ForeignPressChangesNothing ==
    [][\A s \in Slots :
         /\ ( /\ IsFree(s) /\ slot'[s].op = "sess"
              /\ slot'[s].user # slot'[s].author )
            => slot'[s].pc = "alert"
         /\ ( /\ slot[s].op = "sess" /\ slot[s].user # slot[s].author
              /\ Steps(s) )
            => /\ \/ /\ slot[s].pc = "alert"
                     /\ \/ slot'[s] = Free
                        \/ /\ slot'[s].pc = "raised"
                           /\ slot'[s].err = "network"
                  \/ /\ slot[s].pc = "raised" /\ slot[s].err = "network"
                     /\ slot'[s] = Free
               /\ UNCHANGED <<sessions, stats, roles, banned, jobs, kb, notes>>
      ]_vars

\* A user who has no session and no idle job has pressed a button of the
\* keyboard of another user, and the press is about to be answered.
C25_Witness ==
    \E s \in Slots :
       /\ slot[s].op = "sess" /\ slot[s].pc = "alert"
       /\ slot[s].author # slot[s].user /\ slot[s].author \in kb
       /\ OpenRows(slot[s].user) = {}
       /\ \A j \in jobs : j.user # slot[s].user

\* C27: the application handles the updates one after another, so the
\* check-ins of a user do not overlap, and the user has at most one open
\* session in all, of whichever kind: a check-in that finds a session of the
\* user open, of either kind, is turned away and inserts nothing.
C27_OneOpenPerUserWhenSequential ==
    [][/\ \A u \in Users :
            Cardinality({i \in DOMAIN sessions' :
                            /\ sessions'[i].user = u
                            /\ sessions'[i].active}) <= 1
       /\ \A s \in Slots :
            ( /\ slot[s].op = "sess" /\ slot[s].pc = "has_active"
              /\ OpenRows(slot[s].user) # {}
              /\ Steps(s) )
            => slot'[s].pc = "answer_open" /\ sessions' = sessions
      ]_vars

\* A Chat check-in is being turned away because the user's Call session is
\* open, and that is the user's only open session.
C27_Witness ==
    \E s \in Slots :
       /\ slot[s].op = "sess" /\ slot[s].kind = "chat"
       /\ slot[s].pc = "answer_open"
       /\ Cardinality(OpenRows(slot[s].user)) = 1
       /\ OpenOfKind(slot[s].user, "call") # {}

\* C29: a session is not closed by an idle job that was armed before the
\* session was opened: when idle_timeout_job writes its close, the job it
\* runs for was armed (300 s before its due time) no earlier than the
\* closed session was started.
C29_NoCloseByEarlierArmedJob ==
    [][\A s \in Slots :
         (slot[s].op = "idle" /\ slot[s].pc = "update" /\ Steps(s))
         => slot[s].due - IdleSecs >= sessions[slot[s].sid].start_at
      ]_vars

\* C30: at most one idle job is pending per user.  Every step leaves each
\* user with at most one job, and a job that a step adds is due exactly
\* 300 s after the step: schedule_idle_job has removed the user's earlier
\* jobs before it added the new one.
C30_OneIdleJobPerUser ==
    [][/\ \A u \in Users : Cardinality({j \in jobs' : j.user = u}) <= 1
       /\ \A j \in jobs' \ jobs : j.due = IdleDue(now)
      ]_vars

\* A message of a manager is about to re-arm the idle job while the job
\* armed for the user at an earlier time is pending and not yet due.
C30_Witness ==
    \E s \in Slots :
       /\ slot[s].op = "msg" /\ slot[s].pc \in {"has_active", "prompt"}
       /\ is_manager(slot[s].user)
       /\ \E j \in jobs : /\ j.user = slot[s].user
                          /\ now < j.due /\ j.due < IdleDue(now)

----------------------------------------------------------------------------
\* The row of user u for date d as a reader of that date would see it.
RowOf(st, u, d) == IF <<u, d>> \in DOMAIN st THEN st[<<u, d>>] ELSE NoStat

\* C31: for every manager listed, the counters of the nightly report are
\* those of the manager's daily row of the previous local day, the date of
\* the report's header: the job reads, for each user of the chat group, the
\* four chat counters of the user's row of that date and, for each user of
\* the call group, that row's call time, and the messages it sends carry
\* the job's date and the counters read.
C31_ReportShowsPreviousDay ==
    [][\A s \in Slots :
         /\ ( /\ slot[s].op = "nightly" /\ slot[s].pc = "chat_stats"
              /\ Steps(s) )
            => LET e == slot'[s].chat_stats[Len(slot'[s].chat_stats)]
               IN  e.line = ChatLine(RowOf(stats, e.uid, slot[s].day))
         /\ ( /\ slot[s].op = "nightly" /\ slot[s].pc = "call_stats"
              /\ Steps(s) )
            => LET e == slot'[s].call_stats[Len(slot'[s].call_stats)]
               IN  e.sec = RowOf(stats, e.uid, slot[s].day).call_time_sec
         /\ ( /\ slot[s].op = "nightly" /\ slot[s].pc = "send_chat"
              /\ slot'[s].pc = "send_call" )
            => report'.chat = [day |-> slot[s].day,
                               lines |-> slot[s].chat_stats]
         /\ ( /\ slot[s].op = "nightly" /\ slot[s].pc = "send_call"
              /\ slot'[s].pc = "send_mentions" )
            => report'.call = [day |-> slot[s].day,
                               lines |-> slot[s].call_stats]
      ]_vars

----------------------------------------------------------------------------
\* C32: the call time recomputation is idempotent and never double counts.
\* The select of every run of update_call_time_aggregate_for_day computes
\* the sum of the durations of the user's Call sessions started on the
\* date, so that two runs between which neither a session nor the clock
\* has changed select the same total; the upsert stores the selected total
\* as the row's call time, whatever was stored before, and leaves the row's
\* counters and every other row alone; and a run that selects the total the
\* row already holds, as a second run does, leaves the table as it is.  The
\* upsert fails only for a user who has no row in table users, and then,
\* run after run, it stores nothing.
C32_RecomputeIsIdempotent ==
    [][\A s \in Slots :
         /\ ( /\ slot[s].op \in {"agg", "nightly"} /\ slot[s].pc = "fetch"
              /\ Steps(s) )
            => slot'[s].total =
                 CallSecondsStartedOn(Len(sessions), slot'[s].user,
                                      slot[s].day, now)
         /\ ( /\ slot[s].op \in {"agg", "nightly"} /\ slot[s].pc = "write"
              /\ Steps(s) /\ slot'[s].pc = "raised" )
            => slot[s].user \notin users /\ stats' = stats
         /\ ( /\ slot[s].op \in {"agg", "nightly"} /\ slot[s].pc = "write"
              /\ Steps(s) /\ slot'[s].pc # "raised" )
            => \A u \in {slot[s].user}, d \in {slot[s].day},
                  tot \in {slot[s].total} :
                  /\ u \in users
                  /\ DOMAIN stats' = DOMAIN stats \cup {<<u, d>>}
                  /\ CallSecIn(stats', u, d) = tot
                  /\ ChatLine(RowOf(stats', u, d)) = ChatLine(RowOf(stats, u, d))
                  /\ \A k \in DOMAIN stats \ {<<u, d>>} : stats'[k] = stats[k]
                  /\ ( /\ <<u, d>> \in DOMAIN stats
                       /\ stats[<<u, d>>].call_time_sec = tot )
                     => stats' = stats
      ]_vars

\* The second of two runs for the owner and a date is about to write: the
\* row of the date, which holds message counters, already holds the
\* positive total that the first run stored, and the second run has
\* selected the same total, no session and no clock having changed.
C32_Witness ==
    \E s \in Slots :
       /\ slot[s].op = "agg" /\ slot[s].pc = "write"
       /\ slot[s].total > 0
       /\ slot[s].total = CallTotal(slot[s].user, slot[s].day, now)
       /\ <<slot[s].user, slot[s].day>> \in DOMAIN stats
       /\ stats[<<slot[s].user, slot[s].day>>].call_time_sec = slot[s].total
       /\ MsgCountIn(stats, slot[s].user, slot[s].day) >= 1

----------------------------------------------------------------------------
\* C33: every closed Call session is fully accounted once the nightly jobs
\* that follow its close have run: when the job that fires at the first
\* midnight after the close has finished (and with it every earlier job),
\* the call time stored for the user and the session's start date is at
\* least the session's duration.
C33_ClosedCallSessionFullyAccounted ==
    \A i \in Ids :
        ( /\ sessions[i].type = "call"
          /\ ~sessions[i].active /\ sessions[i].end_at # NULL
          /\ NightlyDone(Date(sessions[i].end_at)) )
        => CallSecIn(stats, sessions[i].user, Date(sessions[i].start_at))
              >= sessions[i].end_at - sessions[i].start_at

----------------------------------------------------------------------------
\* C34: one-shot contact.  Of the private messages a user sends after
\* arming a contact, at most one is relayed to the guard chat or the owner
\* until the user arms again.
C34_OneRelayPerArming ==
    \A u \in Users : relayed[u] <= 1

----------------------------------------------------------------------------
\* C35: a failed relay leaves the contact state alone.  A send of the relay
\* that fails takes the handler to the except branch with contact_states
\* unchanged, and the except branch changes nothing either, so the user is
\* still waiting and the next message's handler goes on to relay; a waiting
\* flag is cleared only by the user's own message handler, either after the
\* last send of the relay has succeeded or after the user was found
\* blocked.
C35_FailedRelayKeepsWaiting ==
    [][/\ \A s \in Slots :
            ( /\ slot[s].op = "pm" /\ Steps(s)
              /\ \/ slot[s].pc = "reply_failed"
                 \/ slot'[s].pc = "reply_failed" )
            => /\ contact_states' = contact_states
               /\ contact_states[slot[s].user].waiting
       /\ \A s \in Slots :
            ( /\ slot[s].op = "pm" /\ slot[s].pc = "fetch_state" /\ Steps(s)
              /\ contact_states[slot[s].user].waiting )
            => slot'[s].pc = "is_blocked"
       /\ \A s \in Slots :
            /\ ( slot'[s].op = "pm" /\ slot'[s].pc = "clear" /\ Steps(s) )
               => /\ slot[s].pc = "send_kb"
                  /\ relayed[slot[s].user] >= 1
                  /\ slot[s].user \in blockKb'
            /\ ( slot'[s].op = "pm" /\ slot'[s].pc = "reply_blocked"
                 /\ Steps(s) )
               => is_contact_blocked(slot[s].user)
            /\ ( slot'[s].op = "pm" /\ slot'[s].pc = "clear_blocked"
                 /\ Steps(s) )
               => slot[s].pc = "reply_blocked"
       /\ \A u \in Users :
            ( contact_states[u].waiting /\ ~contact_states'[u].waiting )
            => \E s \in Slots :
                  /\ slot[s].op = "pm" /\ slot[s].user = u
                  /\ slot[s].pc \in {"clear", "clear_blocked"}
                  /\ Steps(s)
      ]_vars

\* The relay of an armed user's message has failed before anything was
\* copied; the handler is in the except branch and the user still waits.
C35_Witness ==
    \E s \in Slots :
       /\ slot[s].op = "pm" /\ slot[s].pc = "reply_failed"
       /\ contact_states[slot[s].user].waiting
       /\ relayed[slot[s].user] = 0

----------------------------------------------------------------------------
\* C36: no private message of a contact-blocked user is relayed.  A block
\* that is recorded stays; the handler of a blocked user's message sends
\* nothing of the relay (header, copy, buttons) and copies nothing, also
\* when the user was armed before the block; and a blocked user is not
\* armed again.
C36_BlockedUserIsNeverRelayed ==
    [][/\ \A u \in Users :
            /\ is_contact_blocked(u) => contact_blocks'[u].blocked
            /\ relayed'[u] > relayed[u] => ~is_contact_blocked(u)
            /\ ( contact_states'[u].waiting /\ ~contact_states[u].waiting )
               => ~is_contact_blocked(u)
       /\ \A s \in Slots :
            ( /\ slot[s].op = "pm" /\ Steps(s)
              /\ slot[s].pc \in {"send_header", "copy", "send_kb"} )
            => ~is_contact_blocked(slot[s].user)
      ]_vars

\* A user who armed a contact and was blocked afterwards has sent a message:
\* the handler found the block and is about to refuse, with nothing relayed
\* since the arming.
C36_Witness ==
    \E s \in Slots :
       /\ slot[s].op = "pm" /\ slot[s].pc = "reply_blocked"
       /\ is_contact_blocked(slot[s].user)
       /\ contact_states[slot[s].user].waiting
       /\ relayed[slot[s].user] = 0

====
